---- MODULE Spec2Model ----
(***************************************************************************)
(* GLSI: the cache-aware search -> scrape -> consolidate -> cache pipeline. *)
(*                                                                         *)
(* Go strings are modelled as sequences of one-character strings, so that  *)
(* TrimSpace, ToLower, the section headers and the divider are computed    *)
(* character by character as the Go code computes them.  "" is << >>.      *)
(* Times are whole hours since the cache database was created.             *)
(***************************************************************************)
EXTENDS Integers, Sequences, FiniteSets, TLC

(***************************************************************************)
(* Bounds of the model.                                                    *)
(***************************************************************************)
\* the clock stops advancing at MaxTime hours
MaxTime == 36
\* largest count a caller passes to Engine.Search
MaxCount == 2
\* number of Engine.Search calls started in one behaviour
MaxSearches == 3
\* length of the longest query given to queryHash
MaxQueryLen == 3
\* length of the longest URL list given to scraper.Scrape
MaxUrls == 2
\* length of the longest page list given to consolidate
MaxPages == 3

\* amounts by which the clock advances, in hours: an entry written at 0 is
\* seen aged exactly the TTL (24) or past it (36)
TickSteps == {24, 36}

(***************************************************************************)
(* Program constants.                                                      *)
(***************************************************************************)
\* cache.cacheTTL = 24 * time.Hour, in hours
cacheTTL == 24

\* the Go nil error
nil == "nil"

(***************************************************************************)
(* strings package, on sequences of characters.                            *)
(***************************************************************************)
\* unicode.IsSpace on the characters the model uses
IsSpace(ch) == ch \in {" ", "\n", "\t"}

\* unicode.ToLower on the characters the model uses
LowerChar(ch) ==
    CASE ch = "A" -> "a"
      [] ch = "B" -> "b"
      [] ch = "D" -> "d"
      [] ch = "G" -> "g"
      [] OTHER -> ch

\* strings.ToLower
ToLower(s) == [i \in 1..Len(s) |-> LowerChar(s[i])]

RECURSIVE TrimLeft(_)
TrimLeft(s) ==
    IF s = << >> THEN << >>
    ELSE IF IsSpace(Head(s)) THEN TrimLeft(Tail(s)) ELSE s

RECURSIVE TrimRight(_)
TrimRight(s) ==
    IF s = << >> THEN << >>
    ELSE IF IsSpace(s[Len(s)]) THEN TrimRight(SubSeq(s, 1, Len(s) - 1)) ELSE s

\* strings.TrimSpace
TrimSpace(s) == TrimRight(TrimLeft(s))

\* strings.HasPrefix(s[from:], prefix), from counted from 1
HasPrefixAt(s, from, prefix) ==
    /\ from + Len(prefix) - 1 <= Len(s)
    /\ \A j \in 1..Len(prefix) : s[from + j - 1] = prefix[j]

(***************************************************************************)
(* engine.queryHash.  SHA-256 is modelled as an injective encoding of the  *)
(* normalized text that is never the empty string (a digest is 64 hex      *)
(* characters): collisions are out of the model.                           *)
(***************************************************************************)
Sha256Hex(s) == <<"sha256:">> \o s

\* queryHash without the TrimSpace
queryHashNoTrim(query) == Sha256Hex(ToLower(query))

queryHash(query) == Sha256Hex(TrimSpace(ToLower(query)))

(***************************************************************************)
(* cache.Cache: the SQLite table `cache` as a set of rows.                 *)
(***************************************************************************)
Row(k, c, t) == [query_hash |-> k, content |-> c, updated_at |-> t]

\* rows selected by WHERE query_hash = ?
RowsOf(tbl, k) == {r \in tbl : r.query_hash = k}

\* the (content, hit, err) triple Cache.Get returns
GetRet(c, h, e) == [content |-> c, hit |-> h, err |-> e]

\* Cache.Get without the staleness test: a row of any age is a hit
GetIgnoresTTL(tbl, t, k, ioerr) ==
    IF ioerr THEN GetRet(<< >>, FALSE, "cache: get")
    ELSE IF RowsOf(tbl, k) = {} THEN GetRet(<< >>, FALSE, nil)
    ELSE LET r == CHOOSE r \in RowsOf(tbl, k) : TRUE
         IN  GetRet(r.content, TRUE, nil)

\* Cache.Get with the staleness test inverted (<= for >)
GetTTLInverted(tbl, t, k, ioerr) ==
    IF ioerr THEN GetRet(<< >>, FALSE, "cache: get")
    ELSE IF RowsOf(tbl, k) = {} THEN GetRet(<< >>, FALSE, nil)
    ELSE LET r == CHOOSE r \in RowsOf(tbl, k) : TRUE
         IN  IF t - r.updated_at <= cacheTTL
             THEN GetRet(<< >>, FALSE, nil)
             ELSE GetRet(r.content, TRUE, nil)

\* Cache.Get with an entry aged exactly the TTL taken as stale (>= for >)
GetStaleAtTTL(tbl, t, k, ioerr) ==
    IF ioerr THEN GetRet(<< >>, FALSE, "cache: get")
    ELSE IF RowsOf(tbl, k) = {} THEN GetRet(<< >>, FALSE, nil)
    ELSE LET r == CHOOSE r \in RowsOf(tbl, k) : TRUE
         IN  IF t - r.updated_at >= cacheTTL
             THEN GetRet(<< >>, FALSE, nil)
             ELSE GetRet(r.content, TRUE, nil)

\* Cache.Get that hands out the scanned content of a stale row
GetStaleContent(tbl, t, k, ioerr) ==
    IF ioerr THEN GetRet(<< >>, FALSE, "cache: get")
    ELSE IF RowsOf(tbl, k) = {} THEN GetRet(<< >>, FALSE, nil)
    ELSE LET r == CHOOSE r \in RowsOf(tbl, k) : TRUE
         IN  IF t - r.updated_at > cacheTTL
             THEN GetRet(r.content, FALSE, nil)
             ELSE GetRet(r.content, TRUE, nil)

\* Cache.Get; ioerr: the query failed at the storage level
Get(tbl, t, k, ioerr) ==
    IF ioerr THEN GetRet(<< >>, FALSE, "cache: get")
    ELSE IF RowsOf(tbl, k) = {} THEN GetRet(<< >>, FALSE, nil)
    ELSE LET r == CHOOSE r \in RowsOf(tbl, k) : TRUE
         IN  IF t - r.updated_at > cacheTTL
             THEN GetRet(<< >>, FALSE, nil)
             ELSE GetRet(r.content, TRUE, nil)

\* the statement of Cache.Set as a plain INSERT into a table without the
\* primary key
UpsertInsertOnly(tbl, t, k, c) == tbl \cup {Row(k, c, t)}

\* the statement of Cache.Set as INSERT OR IGNORE: a present row is kept
UpsertIgnore(tbl, t, k, c) ==
    IF RowsOf(tbl, k) = {} THEN tbl \cup {Row(k, c, t)} ELSE tbl

\* the statement of Cache.Set without updated_at = excluded.updated_at
UpsertKeepsTimestamp(tbl, t, k, c) ==
    IF RowsOf(tbl, k) = {}
    THEN tbl \cup {Row(k, c, t)}
    ELSE (tbl \ RowsOf(tbl, k)) \cup {Row(k, c, r.updated_at) : r \in RowsOf(tbl, k)}

\* the table after the upsert statement of Cache.Set
Upsert(tbl, t, k, c) ==
    IF RowsOf(tbl, k) = {}
    THEN tbl \cup {Row(k, c, t)}
    ELSE (tbl \ RowsOf(tbl, k)) \cup {Row(k, c, t)}

\* Cache.Set: the table afterwards and the error returned
Set(tbl, t, k, c, ioerr) ==
    IF ioerr THEN [table |-> tbl, err |-> "cache: set"]
    ELSE [table |-> Upsert(tbl, t, k, c), err |-> nil]

\* Cache.Clear emptying the content of the rows instead of deleting them
DeleteBlanksContent(tbl, k) ==
    {IF k = << >> \/ r.query_hash = k THEN Row(r.query_hash, << >>, r.updated_at)
     ELSE r : r \in tbl}

\* Cache.Clear always running the DELETE without WHERE
DeleteAll(tbl, k) == {}

\* the table after the DELETE statement of Cache.Clear
Delete(tbl, k) ==
    IF k = << >> THEN {} ELSE tbl \ RowsOf(tbl, k)

\* Cache.Clear reporting an error when the DELETE affected no row
ClearErrOnNoRows(tbl, k, ioerr) ==
    IF ioerr \/ Delete(tbl, k) = tbl THEN [table |-> tbl, err |-> "cache: clear"]
    ELSE [table |-> Delete(tbl, k), err |-> nil]

\* Cache.Clear: the table afterwards and the error returned
Clear(tbl, k, ioerr) ==
    IF ioerr THEN [table |-> tbl, err |-> "cache: clear"]
    ELSE [table |-> Delete(tbl, k), err |-> nil]

(***************************************************************************)
(* scraper.ScrapedPage and engine.consolidate / engine.countSections.      *)
(***************************************************************************)
ScrapedPage(u, c, e) == [URL |-> u, Content |-> c, Err |-> e]

\* the zero value make([]ScrapedPage, n) fills the slice with
ZeroPage == ScrapedPage(<< >>, << >>, nil)

\* "\n\n---\n\n"
Divider == <<"\n", "\n", "-", "-", "-", "\n", "\n">>

\* fmt.Fprintf(&b, "## %s\n\n%s", p.URL, p.Content), the text not trimmed
SectionUntrimmed(p) == <<"#", "#", " ">> \o p.URL \o <<"\n", "\n">> \o p.Content

\* fmt.Fprintf(&b, "## %s\n\n%s", p.URL, strings.TrimSpace(p.Content))
Section(p) == <<"#", "#", " ">> \o p.URL \o <<"\n", "\n">> \o TrimSpace(p.Content)

\* the test of consolidate without the blank-text check
SkippedErrOnly(p) == p.Err # nil

\* the test of consolidate without the error check
SkippedBlankOnly(p) == TrimSpace(p.Content) = << >>

\* the test of consolidate that skips a page
Skipped(p) == p.Err # nil \/ TrimSpace(p.Content) = << >>

\* the loop of consolidate writing the header of a skipped page too, without
\* counting it
RECURSIVE consolidateFromListsSkipped(_, _, _, _)
consolidateFromListsSkipped(pages, i, b, count) ==
    IF i > Len(pages) THEN [content |-> b, count |-> count]
    ELSE IF Skipped(pages[i])
    THEN consolidateFromListsSkipped(pages, i + 1,
                                     b \o <<"#", "#", " ">> \o pages[i].URL, count)
    ELSE consolidateFromListsSkipped(pages, i + 1,
                         (IF count > 0 THEN b \o Divider ELSE b) \o Section(pages[i]),
                         count + 1)

\* the loop of consolidate from page i on, with builder b and counter count
RECURSIVE consolidateFrom(_, _, _, _)
consolidateFrom(pages, i, b, count) ==
    IF i > Len(pages) THEN [content |-> b, count |-> count]
    ELSE IF Skipped(pages[i]) THEN consolidateFrom(pages, i + 1, b, count)
    ELSE consolidateFrom(pages, i + 1,
                         (IF count > 0 THEN b \o Divider ELSE b) \o Section(pages[i]),
                         count + 1)

consolidate(pages) == consolidateFrom(pages, 1, << >>, 0)

\* number of lines of content (split at "\n") that start with "## "
countSections(content) ==
    Cardinality({i \in 1..Len(content) :
                    /\ i = 1 \/ content[i - 1] = "\n"
                    /\ HasPrefixAt(content, i, <<"#", "#", " ">>)})

(***************************************************************************)
(* Inputs.                                                                 *)
(***************************************************************************)
\* queries callers pass: "", " ", "a", " A", "b"
Queries == {<< >>, <<" ">>, <<"a">>, <<" ", "A">>, <<"b">>}

\* queries passed to Engine.Search: "a", " A", "b"
SearchQueries == {<<"a">>, <<" ", "A">>, <<"b">>}

\* keys and contents the cache tests pass to the Cache API directly
CacheKeys == {<<"a">>, <<"b">>}
CacheContents == {<<"1">>, <<"2">>}

\* result pages the search engine may answer with, as the list of hit URLs
SerpPages == {<< >>, <<<<"u">>, <<"v">>>>}

\* what a fetch of one URL may yield: the extracted text, or an error
PageTexts == {<<" ">>, <<"x", " ">>}
FetchOutcomes ==
    {[Content |-> t, Err |-> nil] : t \in PageTexts}
        \cup {[Content |-> << >>, Err |-> "http get"]}

\* values of Config.RateLimit, in milliseconds
RateLimits == {0, 200}

\* the Engine.Search calls that may be in progress, and the ones the single
\* client of Spec makes, one after the other
Calls == {"c1", "c2"}
Callers == {"c1"}

(***************************************************************************)
(* State.                                                                  *)
(***************************************************************************)
VARIABLES
    table,      \* rows of the SQLite table `cache`
    now,        \* the clock, in hours
    config,     \* Engine.config
    calls,      \* per Engine.Search call: position, locals, result
    started,    \* number of Engine.Search calls started so far
    lastWrite,  \* the latest Set or Clear that changed the table
    lastOp,     \* the latest direct call of the Cache API, and what it returned
    hashArgs,   \* the queries given to the queryHash calls under comparison
    hashRets,   \* what those calls returned, << >> before the call
    urls,       \* scraper.Scrape: the URL list given
    served,     \* per URL index, how its server answers the request
    ctxDone,    \* the context given to Scrape has been cancelled
    scrapePc,   \* position of Scrape: "call", "loop" or "returned"
    wg,         \* the counter of the sync.WaitGroup
    tasks,      \* per URL index, the goroutine started for it
    scraped,    \* the slice results, and how often each slot was written
    order,      \* the URL indexes in the order their goroutines finished
    atCancel,   \* the goroutines and the slice as they were at cancellation
    returned,   \* the slice Scrape returned
    consArg,    \* the pages given to consolidate
    consRet,    \* what consolidate returned, << >> before the call
    hitCount,   \* the ResultCount of a cache hit on the document, -1 before
    searchArgs, \* search.Search: the page served, count and engine given
    searchRet,  \* what search.Search returned
    fetchTasks, \* the goroutines Scrape starts for the results, -1 before
    httpReq,    \* the request given to a handler of the HTTP API
    httpResp,   \* the status and body the handler wrote
    engCalls    \* the calls of the engine the handler made, in order

\* the state of the engine and its cache
engineVars == <<table, now, config, calls, started, lastWrite, lastOp>>

\* the arguments and results of queryHash
hashVars == <<hashArgs, hashRets>>

\* one call of scraper.Scrape
scrapeVars == <<urls, served, ctxDone, scrapePc, wg, tasks, scraped, order,
                atCancel, returned>>

\* the argument and result of consolidate
consVars == <<consArg, consRet, hitCount>>

\* one call of search.Search and the fan-out over its results
searchVars == <<searchArgs, searchRet, fetchTasks>>

\* one request to the HTTP API
apiVars == <<httpReq, httpResp, engCalls>>

\* the variables of the specifications of single functions
pureVars == <<hashVars, scrapeVars, consVars, searchVars, apiVars>>

vars == <<engineVars, pureVars>>

\* engine.SearchResult together with the error returned
SearchRet(c, n, fc, e) ==
    [Content |-> c, ResultCount |-> n, FromCache |-> fc, err |-> e]

\* return SearchResult{}, fmt.Errorf(...)
Failure(e) == SearchRet(<< >>, 0, FALSE, e)

NoRet == SearchRet(<< >>, 0, FALSE, "pending")

IdleCall ==
    [pc |-> "idle", query |-> << >>, count |-> 0, force |-> FALSE,
     hash |-> << >>, results |-> << >>, pages |-> << >>, pending |-> {},
     content |-> << >>, resultCount |-> 0, ret |-> NoRet,
     ioerr |-> FALSE,
     nGet |-> 0, nSearch |-> 0, nSleep |-> 0, nScrape |-> 0, nCons |-> 0,
     nSet |-> 0]

\* a statement that was applied to the table: Set(key, content) at time at,
\* Clear(key), or the Clear of ClearCache(key), key being the query given
Write(o, k, c, t) == [op |-> o, key |-> k, content |-> c, at |-> t]
NoWrite == Write("none", << >>, << >>, 0)

\* a direct call op(key, content) of the Cache API: whether the storage
\* failed under it, whether the table held a row it selects, and the
\* (content, hit, err) it returned
Op(o, k, c, io, h, g) ==
    [op |-> o, key |-> k, content |-> c, ioerr |-> io, had |-> h, ret |-> g]
NoOp == Op("none", << >>, << >>, FALSE, FALSE, GetRet(<< >>, FALSE, nil))

\* the table holds a row that a statement with WHERE query_hash = k selects
\* (any row, for the DELETE without WHERE that Clear("") runs)
Selects(tbl, k) == IF k = << >> THEN tbl # {} ELSE RowsOf(tbl, k) # {}

\* no queryHash call under comparison
NoHashCalls ==
    /\ hashArgs = << >>
    /\ hashRets = << >>

\* the engine over a cache database just created
InitEngine ==
    /\ table = {}
    /\ now = 0
    /\ config \in [SearchEngine : {"google"}, RateLimit : RateLimits]
    /\ calls = [c \in Calls |-> IdleCall]
    /\ started = 0
    /\ lastWrite = NoWrite
    /\ lastOp = NoOp

\* the slice results with, per slot, the number of writes made to it
Slots(n) == [i \in 1..n |-> [page |-> ZeroPage, writes |-> 0]]

\* no call of scraper.Scrape on its own
NoScrape ==
    /\ urls = << >>
    /\ served = << >>
    /\ ctxDone = FALSE
    /\ scrapePc = "none"
    /\ wg = 0
    /\ tasks = << >>
    /\ scraped = << >>
    /\ order = << >>
    /\ atCancel = << >>
    /\ returned = << >>

\* no call of consolidate on its own
NoConsolidate ==
    /\ consArg = << >>
    /\ consRet = << >>
    /\ hitCount = -1

\* no call of search.Search on its own
NoDiscovery ==
    /\ searchArgs = << >>
    /\ searchRet = << >>
    /\ fetchTasks = -1

\* no request to the HTTP API
NoRequest ==
    /\ httpReq = << >>
    /\ httpResp = << >>
    /\ engCalls = << >>

Init ==
    /\ InitEngine
    /\ NoDiscovery
    /\ NoRequest
    /\ NoHashCalls
    /\ NoScrape
    /\ NoConsolidate

\* time passes
Tick(d) ==
    /\ now + d <= MaxTime
    /\ now' = now + d
    /\ UNCHANGED <<table, config, calls, started, lastWrite, lastOp, pureVars>>

(***************************************************************************)
(* The Cache API called directly, as the cache package's tests do.         *)
(***************************************************************************)
CacheGet(k) ==
    \E ioerr \in BOOLEAN :
        /\ lastOp' = Op("Get", k, << >>, ioerr, Selects(table, k),
                     Get(table, now, k, ioerr))
        /\ UNCHANGED <<table, now, config, calls, started, lastWrite, pureVars>>

CacheSet(k, c) ==
    \E ioerr \in BOOLEAN :
        LET s == Set(table, now, k, c, ioerr)
        IN  /\ table' = s.table
            /\ lastOp' = Op("Set", k, c, ioerr, Selects(table, k),
                            GetRet(<< >>, FALSE, s.err))
            /\ lastWrite' = IF s.err = nil THEN Write("Set", k, c, now) ELSE lastWrite
            /\ UNCHANGED <<now, config, calls, started, pureVars>>

CacheClear(k) ==
    \E ioerr \in BOOLEAN :
        LET s == Clear(table, k, ioerr)
        IN  /\ table' = s.table
            /\ lastOp' = Op("Clear", k, << >>, ioerr, Selects(table, k),
                            GetRet(<< >>, FALSE, s.err))
            /\ lastWrite' = IF s.err = nil THEN Write("Clear", k, << >>, 0) ELSE lastWrite
            /\ UNCHANGED <<now, config, calls, started, pureVars>>

NextCache ==
    \/ \E k \in CacheKeys : CacheGet(k)
    \/ \E k \in CacheKeys, c \in CacheContents : CacheSet(k, c)
    \/ \E k \in CacheKeys \cup {<< >>} : CacheClear(k)
    \/ \E d \in TickSteps : Tick(d)

SpecCache == Init /\ [][NextCache]_vars

(***************************************************************************)
(* search.Search: the first count hits of the result page, in page order.  *)
(***************************************************************************)
Hits(page, count) ==
    SubSeq(page, 1, IF Len(page) < count THEN Len(page) ELSE count)

(***************************************************************************)
(* Engine.Search, one action per step of a call c.                         *)
(***************************************************************************)
\* Engine.Search checking the cache whatever force says
StartIgnoresForce(c, q, n, f) ==
    /\ calls[c].pc = "idle"
    /\ started < MaxSearches
    /\ started' = started + 1
    /\ calls' = [calls EXCEPT ![c] =
                    [@ EXCEPT !.pc = "check_cache",
                              !.query = q, !.count = n, !.force = f,
                              !.hash = queryHash(q)]]
    /\ UNCHANGED <<table, now, config, lastWrite, lastOp, pureVars>>

\* Engine.Search keying the cache by the query and the count
StartKeyedByCount(c, q, n, f) ==
    /\ calls[c].pc = "idle"
    /\ started < MaxSearches
    /\ started' = started + 1
    /\ calls' = [calls EXCEPT ![c] =
                    [@ EXCEPT !.pc = IF f THEN "search" ELSE "check_cache",
                              !.query = q, !.count = n, !.force = f,
                              !.hash = Append(queryHash(q),
                                              IF n = 1 THEN "1" ELSE "n")]]
    /\ UNCHANGED <<table, now, config, lastWrite, lastOp, pureVars>>

\* the call is made: hash := queryHash(query)
Start(c, q, n, f) ==
    /\ calls[c].pc = "idle"
    /\ started < MaxSearches
    /\ started' = started + 1
    /\ calls' = [calls EXCEPT ![c] =
                    [@ EXCEPT !.pc = IF f THEN "search" ELSE "check_cache",
                              !.query = q, !.count = n, !.force = f,
                              !.hash = queryHash(q)]]
    /\ UNCHANGED <<table, now, config, lastWrite, lastOp, pureVars>>

\* the cache check taking a failure of Cache.Get for a miss
CheckCacheFallsBack(c) ==
    /\ calls[c].pc = "check_cache"
    /\ \E ioerr \in BOOLEAN :
        LET g  == Get(table, now, calls[c].hash, ioerr)
            me == [calls[c] EXCEPT !.nGet = @ + 1, !.ioerr = ioerr]
        IN  calls' = [calls EXCEPT ![c] =
                IF g.hit
                THEN [me EXCEPT !.pc = "done",
                                !.ret = SearchRet(g.content, countSections(g.content),
                                                  TRUE, nil)]
                ELSE [me EXCEPT !.pc = "search"]]
    /\ UNCHANGED <<table, now, config, started, lastWrite, lastOp, pureVars>>

\* 1. cache check
CheckCache(c) ==
    /\ calls[c].pc = "check_cache"
    /\ \E ioerr \in BOOLEAN :
        LET g  == Get(table, now, calls[c].hash, ioerr)
            me == [calls[c] EXCEPT !.nGet = @ + 1, !.ioerr = ioerr]
        IN  calls' = [calls EXCEPT ![c] =
                IF g.err # nil
                THEN [me EXCEPT !.pc = "done", !.ret = Failure("engine: cache get")]
                ELSE IF g.hit
                THEN [me EXCEPT !.pc = "done",
                                !.ret = SearchRet(g.content, countSections(g.content),
                                                  TRUE, nil)]
                ELSE [me EXCEPT !.pc = "search"]]
    /\ UNCHANGED <<table, now, config, started, lastWrite, lastOp, pureVars>>

\* what search.Search(query, count, engine) may return: an error, or the
\* hits of a result page
SearchOutcomes(count) ==
    {[results |-> << >>, err |-> "search"]}
        \cup {[results |-> Hits(page, count), err |-> nil] : page \in SerpPages}

\* Engine.Search calling search.Search again after an error, once
DiscoverRetrying(c, out) ==
    /\ calls[c].pc = "search"
    /\ LET me == [calls[c] EXCEPT !.nSearch = @ + 1]
       IN  calls' = [calls EXCEPT ![c] =
               IF out.err # nil /\ me.nSearch < 2
               THEN me
               ELSE IF out.err # nil
               THEN [me EXCEPT !.pc = "done", !.ret = Failure("engine: search")]
               ELSE IF Len(out.results) = 0
               THEN [me EXCEPT !.pc = "done",
                               !.ret = Failure("engine: no search results")]
               ELSE [me EXCEPT !.pc = "rate_limit", !.results = out.results]]
    /\ UNCHANGED <<table, now, config, started, lastWrite, lastOp, pureVars>>

\* Engine.Search without the check for an empty result list
DiscoverEmptyGoesOn(c, out) ==
    /\ calls[c].pc = "search"
    /\ LET me == [calls[c] EXCEPT !.nSearch = @ + 1]
       IN  calls' = [calls EXCEPT ![c] =
               IF out.err # nil
               THEN [me EXCEPT !.pc = "done", !.ret = Failure("engine: search")]
               ELSE [me EXCEPT !.pc = "rate_limit", !.results = out.results]]
    /\ UNCHANGED <<table, now, config, started, lastWrite, lastOp, pureVars>>

\* 2. search.Search has returned out
DiscoverWith(c, out) ==
    /\ calls[c].pc = "search"
    /\ LET me == [calls[c] EXCEPT !.nSearch = @ + 1]
       IN  calls' = [calls EXCEPT ![c] =
               IF out.err # nil
               THEN [me EXCEPT !.pc = "done", !.ret = Failure("engine: search")]
               ELSE IF Len(out.results) = 0
               THEN [me EXCEPT !.pc = "done",
                               !.ret = Failure("engine: no search results")]
               ELSE [me EXCEPT !.pc = "rate_limit", !.results = out.results]]
    /\ UNCHANGED <<table, now, config, started, lastWrite, lastOp, pureVars>>

\* 2. search.Search fails, or answers with a result page
Discover(c) == \E out \in SearchOutcomes(calls[c].count) : DiscoverWith(c, out)

\* the rate-limit sleep made once per URL found
RateLimitPerUrl(c) ==
    /\ calls[c].pc = "rate_limit"
    /\ calls' = [calls EXCEPT ![c] =
                    [@ EXCEPT !.pc = "scrape",
                              !.nSleep = IF config.RateLimit > 0
                                         THEN @ + Len(calls[c].results) ELSE @]]
    /\ UNCHANGED <<table, now, config, started, lastWrite, lastOp, pureVars>>

\* the rate-limit sleep between the search request and the page scrapes
RateLimit(c) ==
    /\ calls[c].pc = "rate_limit"
    /\ calls' = [calls EXCEPT ![c] =
                    [@ EXCEPT !.pc = "scrape",
                              !.nSleep = IF config.RateLimit > 0 THEN @ + 1 ELSE @]]
    /\ UNCHANGED <<table, now, config, started, lastWrite, lastOp, pureVars>>

\* 3. scraper.Scrape: the result slice is made and one task per URL started
ScrapeStart(c) ==
    /\ calls[c].pc = "scrape"
    /\ calls' = [calls EXCEPT ![c] =
                    [@ EXCEPT !.pc = "wait",
                              !.nScrape = @ + 1,
                              !.pages = [i \in 1..Len(calls[c].results) |-> ZeroPage],
                              !.pending = 1..Len(calls[c].results)]]
    /\ UNCHANGED <<table, now, config, started, lastWrite, lastOp, pureVars>>

\* scrapeSingle without the per-URL timeout: only the task of the first URL
\* resolves, the server of any other URL stalling for ever
ScrapeTaskStalls(c, idx) ==
    /\ calls[c].pc = "wait"
    /\ idx \in calls[c].pending
    /\ idx < 2
    /\ \E o \in FetchOutcomes :
        calls' = [calls EXCEPT ![c] =
                    [@ EXCEPT !.pages[idx] =
                                  ScrapedPage(calls[c].results[idx], o.Content, o.Err),
                              !.pending = @ \ {idx}]]
    /\ UNCHANGED <<table, now, config, started, lastWrite, lastOp, pureVars>>

\* the task of URL idx resolves with outcome o and writes results[idx]
ScrapeTaskWith(c, idx, o) ==
    /\ calls[c].pc = "wait"
    /\ idx \in calls[c].pending
    /\ calls' = [calls EXCEPT ![c] =
                    [@ EXCEPT !.pages[idx] =
                                  ScrapedPage(calls[c].results[idx], o.Content, o.Err),
                              !.pending = @ \ {idx}]]
    /\ UNCHANGED <<table, now, config, started, lastWrite, lastOp, pureVars>>

\* the task of URL idx resolves and writes results[idx]
ScrapeTask(c, idx) == \E o \in FetchOutcomes : ScrapeTaskWith(c, idx, o)

\* Engine.Search without the check for an empty document
ScrapeWaitKeepsEmpty(c) ==
    /\ calls[c].pc = "wait"
    /\ calls[c].pending = {}
    /\ LET r == consolidate(calls[c].pages)
       IN  calls' = [calls EXCEPT ![c] =
               [@ EXCEPT !.pc = "store", !.content = r.content,
                         !.resultCount = r.count, !.nCons = @ + 1]]
    /\ UNCHANGED <<table, now, config, started, lastWrite, lastOp, pureVars>>

\* wg.Wait() returns; 4. consolidate
ScrapeWait(c) ==
    /\ calls[c].pc = "wait"
    /\ calls[c].pending = {}
    /\ LET r == consolidate(calls[c].pages)
       IN  calls' = [calls EXCEPT ![c] =
               IF r.content = << >>
               THEN [@ EXCEPT !.pc = "done", !.nCons = @ + 1,
                              !.ret = Failure("engine: all pages failed to scrape")]
               ELSE [@ EXCEPT !.pc = "store", !.content = r.content,
                              !.resultCount = r.count, !.nCons = @ + 1]]
    /\ UNCHANGED <<table, now, config, started, lastWrite, lastOp, pureVars>>

\* Engine.Search returning the number of URLs as ResultCount
StoreCountsUrls(c) ==
    /\ calls[c].pc = "store"
    /\ \E ioerr \in BOOLEAN :
        LET s  == Set(table, now, calls[c].hash, calls[c].content, ioerr)
            me == [calls[c] EXCEPT !.nSet = @ + 1, !.ioerr = ioerr]
        IN  /\ table' = s.table
            /\ calls' = [calls EXCEPT ![c] =
                   IF s.err # nil
                   THEN [me EXCEPT !.pc = "done", !.ret = Failure("engine: cache set")]
                   ELSE [me EXCEPT !.pc = "done",
                                   !.ret = SearchRet(me.content, Len(me.results),
                                                     FALSE, nil)]]
            /\ lastWrite' = IF s.err = nil
                            THEN Write("Set", calls[c].hash, calls[c].content, now)
                            ELSE lastWrite
    /\ UNCHANGED <<now, config, started, lastOp, pureVars>>

\* Engine.Search calling cache.Set again after it failed, once
StoreRetrying(c) ==
    /\ calls[c].pc = "store"
    /\ \E ioerr \in BOOLEAN :
        LET s  == Set(table, now, calls[c].hash, calls[c].content, ioerr)
            me == [calls[c] EXCEPT !.nSet = @ + 1, !.ioerr = ioerr]
        IN  /\ table' = s.table
            /\ calls' = [calls EXCEPT ![c] =
                   IF s.err # nil /\ me.nSet < 2
                   THEN me
                   ELSE IF s.err # nil
                   THEN [me EXCEPT !.pc = "done", !.ret = Failure("engine: cache set")]
                   ELSE [me EXCEPT !.pc = "done",
                                   !.ret = SearchRet(me.content, me.resultCount,
                                                     FALSE, nil)]]
            /\ lastWrite' = IF s.err = nil
                            THEN Write("Set", calls[c].hash, calls[c].content, now)
                            ELSE lastWrite
    /\ UNCHANGED <<now, config, started, lastOp, pureVars>>

\* 5. upsert into the cache, and return
Store(c) ==
    /\ calls[c].pc = "store"
    /\ \E ioerr \in BOOLEAN :
        LET s  == Set(table, now, calls[c].hash, calls[c].content, ioerr)
            me == [calls[c] EXCEPT !.nSet = @ + 1, !.ioerr = ioerr]
        IN  /\ table' = s.table
            /\ calls' = [calls EXCEPT ![c] =
                   IF s.err # nil
                   THEN [me EXCEPT !.pc = "done", !.ret = Failure("engine: cache set")]
                   ELSE [me EXCEPT !.pc = "done",
                                   !.ret = SearchRet(me.content, me.resultCount,
                                                     FALSE, nil)]]
            /\ lastWrite' = IF s.err = nil
                            THEN Write("Set", calls[c].hash, calls[c].content, now)
                            ELSE lastWrite
    /\ UNCHANGED <<now, config, started, lastOp, pureVars>>

\* the caller has taken the result
Return(c) ==
    /\ calls[c].pc = "done"
    /\ calls' = [calls EXCEPT ![c] = IdleCall]
    /\ UNCHANGED <<table, now, config, started, lastWrite, lastOp, pureVars>>

(***************************************************************************)
(* Engine.ClearCache.                                                      *)
(***************************************************************************)
\* Engine.ClearCache without the special case of the empty query
ClearHashAlways(query) == queryHash(query)

\* Engine.ClearCache hashing the query as given, without normalizing it
ClearHashRaw(query) == IF query # << >> THEN Sha256Hex(query) ELSE << >>

\* Engine.ClearCache testing the normalized query for emptiness
ClearHashTrimmed(query) ==
    IF TrimSpace(query) # << >> THEN queryHash(query) ELSE << >>

\* the hash Engine.ClearCache passes to Cache.Clear
ClearHash(query) == IF query # << >> THEN queryHash(query) ELSE << >>

ClearCache(query) ==
    \E ioerr \in BOOLEAN :
        LET hash == ClearHash(query)
            s    == Clear(table, hash, ioerr)
        IN  /\ table' = s.table
            /\ lastWrite' = IF s.err = nil THEN Write("ClearCache", query, << >>, 0)
                            ELSE lastWrite
            /\ UNCHANGED <<now, config, calls, started, lastOp, pureVars>>

Next ==
    \/ \E c \in Callers, q \in SearchQueries, n \in 1..MaxCount, f \in BOOLEAN :
          Start(c, q, n, f)
    \/ \E c \in Callers : CheckCache(c)
    \/ \E c \in Callers : Discover(c)
    \/ \E c \in Callers : RateLimit(c)
    \/ \E c \in Callers : ScrapeStart(c)
    \/ \E c \in Callers, idx \in 1..MaxCount : ScrapeTask(c, idx)
    \/ \E c \in Callers : ScrapeWait(c)
    \/ \E c \in Callers : Store(c)
    \/ \E c \in Callers : Return(c)
    \/ \E q \in Queries : ClearCache(q)
    \/ \E d \in TickSteps : Tick(d)

Spec == Init /\ [][Next]_vars

(***************************************************************************)
(* Engine.Search and Engine.ClearCache called concurrently: each of two    *)
(* clients makes one Search call, on queries of one key, and the steps of  *)
(* the two calls and the ClearCache calls interleave in every way.         *)
(***************************************************************************)
\* the queries of the two clients: "a", " A"
ConcurrentQueries == {<<"a">>, <<" ", "A">>}

\* the hour at which the later writes are made
ConcurrentTicks == {24}

NextConcurrent ==
    \/ \E c \in Calls, q \in ConcurrentQueries, f \in BOOLEAN :
          /\ c = "c2" => calls["c1"].pc # "idle"
          /\ Start(c, q, MaxCount, f)
    \/ \E c \in Calls : CheckCache(c)
    \/ \E c \in Calls : Discover(c)
    \/ \E c \in Calls : RateLimit(c)
    \/ \E c \in Calls : ScrapeStart(c)
    \/ \E c \in Calls, idx \in 1..MaxCount : ScrapeTask(c, idx)
    \/ \E c \in Calls : ScrapeWait(c)
    \/ \E c \in Calls : Store(c)
    \/ \E q \in {<< >>, <<"a">>} : ClearCache(q)
    \/ \E d \in ConcurrentTicks : Tick(d)

InitConcurrent ==
    /\ Init
    /\ config.RateLimit = 0

SpecConcurrent == InitConcurrent /\ [][NextConcurrent]_vars

(***************************************************************************)
(* Engine.Search under fair scheduling.  The calls are made one after the  *)
(* other on one key.  A call that has started is not held up: the cache    *)
(* and the discovery return, the sleep ends, a goroutine that was started  *)
(* runs, and a fetch resolves by its answer, its error or the deadline of  *)
(* its context, so each step of a call is taken if it stays possible.      *)
(* Whether a further call is started, and when the caller takes a result,  *)
(* is up to the caller.                                                    *)
(***************************************************************************)
LiveQueries == {<<"a">>}

NextLive ==
    \/ \E c \in Callers, q \in LiveQueries, n \in 1..MaxCount, f \in BOOLEAN :
          Start(c, q, n, f)
    \/ \E c \in Callers : CheckCache(c)
    \/ \E c \in Callers : Discover(c)
    \/ \E c \in Callers : RateLimit(c)
    \/ \E c \in Callers : ScrapeStart(c)
    \/ \E c \in Callers, idx \in 1..MaxCount : ScrapeTask(c, idx)
    \/ \E c \in Callers : ScrapeWait(c)
    \/ \E c \in Callers : Store(c)
    \/ \E c \in Callers : Return(c)

Fairness ==
    \A c \in Callers :
        /\ WF_vars(CheckCache(c))
        /\ WF_vars(Discover(c))
        /\ WF_vars(RateLimit(c))
        /\ WF_vars(ScrapeStart(c))
        /\ \A idx \in 1..MaxCount : WF_vars(ScrapeTask(c, idx))
        /\ WF_vars(ScrapeWait(c))
        /\ WF_vars(Store(c))

SpecLive == Init /\ [][NextLive]_vars /\ Fairness

(***************************************************************************)
(* Engine.Search of one query with different counts and search engines: a  *)
(* first call c1, then a call c2 of a variant of the query; between the    *)
(* two the engine may be opened again over the same database with another  *)
(* Config.SearchEngine.                                                    *)
(***************************************************************************)
KeyQueries == {<<"a">>, <<" ", "A">>}

InitKey ==
    /\ Init
    /\ config.RateLimit = 0

\* engine.New(cfg) over the database of the engine before, with another
\* search engine configured
Reopen(e) ==
    /\ calls["c1"].pc = "done"
    /\ calls["c2"].pc = "idle"
    /\ config.SearchEngine # e
    /\ config' = [config EXCEPT !.SearchEngine = e]
    /\ UNCHANGED <<table, now, calls, started, lastWrite, lastOp, pureVars>>

NextKey ==
    \/ \E c \in Calls, q \in KeyQueries, n \in 1..MaxCount, f \in BOOLEAN :
          /\ c = "c2" => calls["c1"].pc = "done"
          /\ Start(c, q, n, f)
    \/ \E c \in Calls : CheckCache(c)
    \/ \E c \in Calls : Discover(c)
    \/ \E c \in Calls : RateLimit(c)
    \/ \E c \in Calls : ScrapeStart(c)
    \/ \E c \in Calls, idx \in 1..MaxCount : ScrapeTask(c, idx)
    \/ \E c \in Calls : ScrapeWait(c)
    \/ \E c \in Calls : Store(c)
    \/ Reopen("duckduckgo")

SpecKey == InitKey /\ [][NextKey]_vars

(***************************************************************************)
(* Engine.ClearCache among the calls of Engine.Search, the clock standing  *)
(* still: what one ClearCache removes from the entries the searches made.  *)
(***************************************************************************)
InitClear ==
    /\ Init
    /\ config.RateLimit = 0

NextClear ==
    \/ \E c \in Callers, q \in SearchQueries, f \in BOOLEAN :
          Start(c, q, MaxCount, f)
    \/ \E c \in Callers : CheckCache(c)
    \/ \E c \in Callers : Discover(c)
    \/ \E c \in Callers : RateLimit(c)
    \/ \E c \in Callers : ScrapeStart(c)
    \/ \E c \in Callers, idx \in 1..MaxCount : ScrapeTask(c, idx)
    \/ \E c \in Callers : ScrapeWait(c)
    \/ \E c \in Callers : Store(c)
    \/ \E c \in Callers : Return(c)
    \/ \E q \in Queries : ClearCache(q)

SpecClear == InitClear /\ [][NextClear]_vars

(***************************************************************************)
(* Engine.Search of one query while its entry ages: the calls are made one *)
(* after the other and the clock moves between their steps.                *)
(***************************************************************************)
StaleQueries == {<<"a">>}

InitStale ==
    /\ Init
    /\ config.RateLimit = 0

NextStale ==
    \/ \E c \in Callers, q \in StaleQueries, f \in BOOLEAN :
          Start(c, q, MaxCount, f)
    \/ \E c \in Callers : CheckCache(c)
    \/ \E c \in Callers : Discover(c)
    \/ \E c \in Callers : RateLimit(c)
    \/ \E c \in Callers : ScrapeStart(c)
    \/ \E c \in Callers, idx \in 1..MaxCount : ScrapeTask(c, idx)
    \/ \E c \in Callers : ScrapeWait(c)
    \/ \E c \in Callers : Store(c)
    \/ \E c \in Callers : Return(c)
    \/ \E d \in TickSteps : Tick(d)

SpecStale == InitStale /\ [][NextStale]_vars

(***************************************************************************)
(* Engine.Search under a context the caller may cancel.  The context is    *)
(* given to search.Search and to scraper.Scrape; cache.Get, cache.Set and  *)
(* time.Sleep do not take it.  A request made on a cancelled context fails *)
(* in client.Do; one in flight when the cancellation comes fails or, its   *)
(* response having arrived, succeeds.  Discovery being one step here, the  *)
(* cancellation during it is the cancellation just before it (the request  *)
(* fails) or just after it (the response had arrived).                     *)
(***************************************************************************)
CancelQueries == {<<"a">>}

InitCancel ==
    /\ Init
    /\ config.RateLimit = 0

\* the caller cancels the context of its call in progress; atCancel keeps
\* where the call was and what the table held
CancelCall(c) ==
    /\ ~ctxDone
    /\ calls[c].pc \notin {"idle", "done"}
    /\ ctxDone' = TRUE
    /\ atCancel' = <<[pc |-> calls[c].pc, table |-> table]>>
    /\ UNCHANGED <<engineVars, searchVars, apiVars, consVars, hashVars, urls, served,
                   scrapePc, wg, tasks, scraped, order, returned>>

\* the caller makes the context of its next call
NewContext(c) ==
    /\ ctxDone
    /\ calls[c].pc = "idle"
    /\ ctxDone' = FALSE
    /\ atCancel' = << >>
    /\ UNCHANGED <<engineVars, searchVars, apiVars, consVars, hashVars, urls, served,
                   scrapePc, wg, tasks, scraped, order, returned>>

\* search.Search(ctx, ...): on a cancelled context httpClient.Do fails
DiscoverCtx(c) ==
    \E out \in SearchOutcomes(calls[c].count) :
        /\ ctxDone => out.err # nil
        /\ DiscoverWith(c, out)

\* the fetch tasks not given the context of the call
ScrapeTaskIgnoresCtx(c, idx) == \E o \in FetchOutcomes : ScrapeTaskWith(c, idx, o)

\* scrapeSingle(ctx, url): a task started on a cancelled context fails in
\* client.Do; one that was started before the cancellation resolves either
\* way
ScrapeTaskCtx(c, idx) ==
    \E o \in FetchOutcomes :
        /\ (ctxDone /\ atCancel[1].pc # "wait") => o.Err # nil
        /\ ScrapeTaskWith(c, idx, o)

NextCancel ==
    \/ \E c \in Callers, q \in CancelQueries, f \in BOOLEAN :
          /\ ~ctxDone
          /\ Start(c, q, MaxCount, f)
    \/ \E c \in Callers : CancelCall(c)
    \/ \E c \in Callers : NewContext(c)
    \/ \E c \in Callers : CheckCache(c)
    \/ \E c \in Callers : DiscoverCtx(c)
    \/ \E c \in Callers : RateLimit(c)
    \/ \E c \in Callers : ScrapeStart(c)
    \/ \E c \in Callers, idx \in 1..MaxCount : ScrapeTaskCtx(c, idx)
    \/ \E c \in Callers : ScrapeWait(c)
    \/ \E c \in Callers : Store(c)
    \/ \E c \in Callers : Return(c)

SpecCancel == InitCancel /\ [][NextCancel]_vars

(***************************************************************************)
(* engine.queryHash on its own: two calls, on any two queries.             *)
(***************************************************************************)
\* the characters queries are made of
QueryChars == {"a", "A", "b", " "}

\* every query of at most MaxQueryLen characters
HashQueries == UNION {[1..n -> QueryChars] : n \in 0..MaxQueryLen}

InitHash ==
    /\ InitEngine
    /\ NoDiscovery
    /\ NoRequest
    /\ config.RateLimit = 0
    /\ NoScrape
    /\ NoConsolidate
    /\ hashArgs \in [1..2 -> HashQueries]
    /\ hashRets = [i \in 1..2 |-> << >>]

\* the i-th call: queryHash(hashArgs[i])
HashCall(i) ==
    /\ i \in DOMAIN hashArgs
    /\ hashRets[i] = << >>
    /\ hashRets' = [hashRets EXCEPT ![i] = queryHash(hashArgs[i])]
    /\ UNCHANGED <<engineVars, searchVars, apiVars, consVars, hashArgs, scrapeVars>>

NextHash == \E i \in 1..2 : HashCall(i)

SpecHash == InitHash /\ [][NextHash]_vars

(***************************************************************************)
(* scraper.Scrape on its own: one call, its goroutines taken step by step. *)
(***************************************************************************)
\* the URLs that may be given at place i of the list: "u", "uu", ... (one
\* URL per place), or "%", which http.NewRequestWithContext rejects
ScrapeUrls(i) == {[j \in 1..i |-> "u"], <<"%">>}
Malformed(rawURL) == rawURL = <<"%">>

\* the URL lists of length n
UrlLists(n) == {l \in [1..n -> UNION {ScrapeUrls(i) : i \in 1..n}] :
                   \A i \in 1..n : l[i] \in ScrapeUrls(i)}

\* how the server of a URL answers: it refuses the connection, answers
\* with a status other than 200, does not answer within perURLTimeout,
\* answers 200 with a body readability cannot parse, answers 200 and stalls
\* in the body beyond perURLTimeout, or answers 200 with an article
Served == {"refused", "status", "slow", "garbage", "stall", "ok"}

\* article.TextContent of the article served
ServedText == <<"x", " ">>

\* the (content, err) pair scrapeSingle returns
ScrapeRet(c, e) == [Content |-> c, Err |-> e]

\* a goroutine not started yet
NoTask == [pc |-> "none", tries |-> 0, ret |-> ScrapeRet(<< >>, nil)]

InitScrape ==
    /\ InitEngine
    /\ NoDiscovery
    /\ NoRequest
    /\ config.RateLimit = 0
    /\ NoHashCalls
    /\ NoConsolidate
    /\ urls \in UNION {UrlLists(n) : n \in 0..MaxUrls}
    /\ served \in UNION {[1..n -> Served] : n \in 0..MaxUrls}
    /\ Len(served) = Len(urls)
    /\ ctxDone = FALSE
    /\ scrapePc = "call"
    /\ wg = 0
    /\ tasks = << >>
    /\ scraped = << >>
    /\ order = << >>
    /\ atCancel = << >>
    /\ returned = << >>

\* the context of the goroutines cancelled as soon as a sibling has failed
CtxDoneOnSiblingFailure(idx) ==
    ctxDone \/ \E j \in DOMAIN tasks :
                  j # idx /\ tasks[j].pc = "done" /\ tasks[j].ret.Err # nil

\* the context scrapeSingle derives from ctx is done because ctx is (its own
\* deadline is TaskTimeout)
CtxDone(idx) == ctxDone

\* every goroutine writing the slot of the loop variable, which the loop has
\* left at the last URL
SlotOfLoopVariable(idx, n) == Len(urls)

\* results filled in the order the goroutines finish (append)
SlotInCompletionOrder(idx, n) == n + 1

\* the slot the goroutine of URL idx writes, n goroutines having finished
Slot(idx, n) == idx

\* Scrape returning as soon as one page has been scraped
JoinedOnFirstSuccess ==
    wg = 0 \/ \E i \in DOMAIN tasks : tasks[i].pc = "done" /\ tasks[i].ret.Err = nil

\* wg.Wait() returns
Joined == wg = 0

\* the caller cancels ctx
Cancel ==
    /\ scrapePc \in {"call", "loop"}
    /\ ~ctxDone
    /\ ctxDone' = TRUE
    /\ atCancel' = <<[pcs   |-> [i \in DOMAIN tasks |-> tasks[i].pc],
                      pages |-> [i \in DOMAIN scraped |-> scraped[i].page]]>>
    /\ UNCHANGED <<engineVars, searchVars, apiVars, consVars, hashVars, urls, served, scrapePc, wg, tasks,
                   scraped, order, returned>>

\* results := make([]ScrapedPage, len(urls)); var wg sync.WaitGroup
ScrapeMake ==
    /\ scrapePc = "call"
    /\ scrapePc' = "loop"
    /\ scraped' = Slots(Len(urls))
    /\ tasks' = [i \in 1..Len(urls) |-> NoTask]
    /\ UNCHANGED <<engineVars, searchVars, apiVars, consVars, hashVars, urls, served, ctxDone, wg, order,
                   atCancel, returned>>

\* one round of the loop: wg.Add(1); go func(idx, rawURL) {...}(i, u)
ScrapeGo ==
    /\ scrapePc = "loop"
    /\ \E i \in DOMAIN tasks :
          /\ tasks[i].pc = "none"
          /\ \A j \in 1..(i - 1) : tasks[j].pc # "none"
          /\ tasks' = [tasks EXCEPT ![i].pc = "go"]
    /\ wg' = wg + 1
    /\ UNCHANGED <<engineVars, searchVars, apiVars, consVars, hashVars, urls, served, ctxDone, scrapePc,
                   scraped, order, atCancel, returned>>

\* scrapeSingle has returned (content, err) in the goroutine me of URL idx:
\* results[idx] = ScrapedPage{rawURL, content, err}; wg.Done()
Resolve(idx, me, content, err) ==
    /\ tasks' = [tasks EXCEPT ![idx] =
                    [me EXCEPT !.pc = "done", !.ret = ScrapeRet(content, err)]]
    /\ scraped' = [scraped EXCEPT ![Slot(idx, Len(order))] =
                      [page   |-> ScrapedPage(urls[idx], content, err),
                       writes |-> @.writes + 1]]
    /\ order' = Append(order, idx)
    /\ wg' = wg - 1

\* scrapeSingle sending its request whatever the state of the context
TaskStartIgnoresCtx(idx) ==
    /\ idx \in DOMAIN tasks
    /\ tasks[idx].pc = "go"
    /\ LET me == [tasks[idx] EXCEPT !.tries = @ + 1]
       IN  IF Malformed(urls[idx])
           THEN Resolve(idx, me, << >>, "create request")
           ELSE /\ tasks' = [tasks EXCEPT ![idx] = [me EXCEPT !.pc = "do"]]
                /\ UNCHANGED <<scraped, order, wg>>
    /\ UNCHANGED <<engineVars, searchVars, apiVars, consVars, hashVars, urls, served, ctxDone, scrapePc,
                   atCancel, returned>>

\* the goroutine runs: scrapeSingle builds the request and calls client.Do
TaskStart(idx) ==
    /\ idx \in DOMAIN tasks
    /\ tasks[idx].pc = "go"
    /\ LET me == [tasks[idx] EXCEPT !.tries = @ + 1]
       IN  IF Malformed(urls[idx])
           THEN Resolve(idx, me, << >>, "create request")
           ELSE IF CtxDone(idx)
           THEN Resolve(idx, me, << >>, "http get")
           ELSE /\ tasks' = [tasks EXCEPT ![idx] = [me EXCEPT !.pc = "do"]]
                /\ UNCHANGED <<scraped, order, wg>>
    /\ UNCHANGED <<engineVars, searchVars, apiVars, consVars, hashVars, urls, served, ctxDone, scrapePc,
                   atCancel, returned>>

\* client.Do returns: an error, or the response whose status is checked
TaskResponse(idx) ==
    /\ idx \in DOMAIN tasks
    /\ tasks[idx].pc = "do"
    /\ served[idx] # "slow"
    /\ CASE served[idx] = "refused" ->
                Resolve(idx, tasks[idx], << >>, "http get")
         [] served[idx] = "status" ->
                Resolve(idx, tasks[idx], << >>, "unexpected status")
         [] OTHER ->
                /\ tasks' = [tasks EXCEPT ![idx].pc = "read"]
                /\ UNCHANGED <<scraped, order, wg>>
    /\ UNCHANGED <<engineVars, searchVars, apiVars, consVars, hashVars, urls, served, ctxDone, scrapePc,
                   atCancel, returned>>

\* readability.FromReader returns: an error, or the article
TaskRead(idx) ==
    /\ idx \in DOMAIN tasks
    /\ tasks[idx].pc = "read"
    /\ served[idx] # "stall"
    /\ IF served[idx] = "garbage"
       THEN Resolve(idx, tasks[idx], << >>, "readability parse")
       ELSE Resolve(idx, tasks[idx], ServedText, nil)
    /\ UNCHANGED <<engineVars, searchVars, apiVars, consVars, hashVars, urls, served, ctxDone, scrapePc,
                   atCancel, returned>>

\* a goroutine that calls scrapeSingle a second time after a timeout
TaskTimeoutRetries(idx) ==
    /\ idx \in DOMAIN tasks
    /\ \/ tasks[idx].pc = "do" /\ served[idx] = "slow"
       \/ tasks[idx].pc = "read" /\ served[idx] = "stall"
    /\ IF tasks[idx].tries < 2
       THEN /\ tasks' = [tasks EXCEPT ![idx].pc = "go"]
            /\ UNCHANGED <<scraped, order, wg>>
       ELSE Resolve(idx, tasks[idx], << >>, "http get")
    /\ UNCHANGED <<engineVars, searchVars, apiVars, consVars, hashVars, urls, served, ctxDone, scrapePc,
                   atCancel, returned>>

\* perURLTimeout passes while the goroutine waits for the server
TaskTimeout(idx) ==
    /\ idx \in DOMAIN tasks
    /\ \/ /\ tasks[idx].pc = "do" /\ served[idx] = "slow"
          /\ Resolve(idx, tasks[idx], << >>, "http get")
       \/ /\ tasks[idx].pc = "read" /\ served[idx] = "stall"
          /\ Resolve(idx, tasks[idx], << >>, "readability parse")
    /\ UNCHANGED <<engineVars, searchVars, apiVars, consVars, hashVars, urls, served, ctxDone, scrapePc,
                   atCancel, returned>>

\* the goroutine sees its context done while it waits in client.Do or in
\* the read of the body
TaskCancelled(idx) ==
    /\ idx \in DOMAIN tasks
    /\ CtxDone(idx)
    /\ \/ /\ tasks[idx].pc = "do"
          /\ Resolve(idx, tasks[idx], << >>, "http get")
       \/ /\ tasks[idx].pc = "read"
          /\ Resolve(idx, tasks[idx], << >>, "readability parse")
    /\ UNCHANGED <<engineVars, searchVars, apiVars, consVars, hashVars, urls, served, ctxDone, scrapePc,
                   atCancel, returned>>

\* the loop is over; wg.Wait(); return results
ScrapeReturn ==
    /\ scrapePc = "loop"
    /\ \A i \in DOMAIN tasks : tasks[i].pc # "none"
    /\ Joined
    /\ scrapePc' = "returned"
    /\ returned' = [i \in DOMAIN scraped |-> scraped[i].page]
    /\ UNCHANGED <<engineVars, searchVars, apiVars, consVars, hashVars, urls, served, ctxDone, wg, tasks,
                   scraped, order, atCancel>>

\* the caller, Engine.Search, goes on: content, count := consolidate(pages)
ScrapeConsolidate ==
    /\ scrapePc = "returned"
    /\ scrapePc' = "consolidated"
    /\ consRet' = <<consolidate(returned)>>
    /\ UNCHANGED <<engineVars, searchVars, apiVars, hashVars, consArg, hitCount, urls, served, ctxDone, wg,
                   tasks, scraped, order, atCancel, returned>>

NextScrape ==
    \/ ScrapeMake
    \/ ScrapeGo
    \/ \E idx \in 1..MaxUrls : TaskStart(idx)
    \/ \E idx \in 1..MaxUrls : TaskResponse(idx)
    \/ \E idx \in 1..MaxUrls : TaskRead(idx)
    \/ \E idx \in 1..MaxUrls : TaskTimeout(idx)
    \/ \E idx \in 1..MaxUrls : TaskCancelled(idx)
    \/ ScrapeReturn
    \/ ScrapeConsolidate
    \/ Cancel

SpecScrape == InitScrape /\ [][NextScrape]_vars

(***************************************************************************)
(* engine.consolidate on its own: one call, on any list of pages.          *)
(***************************************************************************)
\* the pages given: two URLs; a page has an error (with or without text),
\* empty or blank text, or text, which may have whitespace around it
ConsPages ==
    {ScrapedPage(u, c, "dummy error") : u \in {<<"u">>, <<"v">>},
                                        c \in {<< >>, <<"x">>}}
      \cup {ScrapedPage(u, c, nil) :
                u \in {<<"u">>, <<"v">>},
                c \in {<< >>, <<" ", " ">>, <<"x">>, <<" ", "y", "\n">>}}

InitConsolidate ==
    /\ InitEngine
    /\ NoDiscovery
    /\ NoRequest
    /\ config.RateLimit = 0
    /\ NoHashCalls
    /\ NoScrape
    /\ consArg \in UNION {[1..n -> ConsPages] : n \in 0..MaxPages}
    /\ consRet = << >>
    /\ hitCount = -1

\* content, count := consolidate(pages)
ConsolidateCall ==
    /\ consRet = << >>
    /\ consRet' = <<consolidate(consArg)>>
    /\ UNCHANGED <<engineVars, searchVars, apiVars, hashVars, scrapeVars, consArg,
                   hitCount>>

NextConsolidate == ConsolidateCall

SpecConsolidate == InitConsolidate /\ [][NextConsolidate]_vars

(***************************************************************************)
(* The document of a run read back on a cache hit: consolidate builds it   *)
(* from the pages, cache.Set stores it, and a later Engine.Search answered *)
(* from the cache derives its ResultCount from the text with               *)
(* countSections.  The page texts include Markdown of their own.           *)
(***************************************************************************)
SectionTexts ==
    {<<" ">>, <<"x">>, <<"x", "\n", "#", "#", " ", "y">>, <<"#", "#", " ", "y">>,
     <<"x", " ", "#", "#", " ", "y">>}

SectionPages ==
    {ScrapedPage(u, c, nil) : u \in {<<"u">>, <<"v">>}, c \in SectionTexts}
        \cup {ScrapedPage(<<"u">>, << >>, "http get")}

InitSections ==
    /\ InitEngine
    /\ NoDiscovery
    /\ NoRequest
    /\ config.RateLimit = 0
    /\ NoHashCalls
    /\ NoScrape
    /\ consArg \in UNION {[1..n -> SectionPages] : n \in 0..MaxPages}
    /\ consRet = << >>
    /\ hitCount = -1

\* a later Engine.Search(force=false) finds the stored document and returns
\* ResultCount: countSections(content)
CountOnHit ==
    /\ consRet # << >>
    /\ consRet[1].content # << >>
    /\ hitCount = -1
    /\ hitCount' = countSections(consRet[1].content)
    /\ UNCHANGED <<engineVars, searchVars, apiVars, hashVars, scrapeVars, consArg,
                   consRet>>

NextSections == ConsolidateCall \/ CountOnHit

SpecSections == InitSections /\ [][NextSections]_vars

(***************************************************************************)
(* package search on its own.  A result page is the sequence, in document  *)
(* order, of its anchors: each with the class that selects it ("g" for the *)
(* first anchor of a div.g, "result__a" for a.result__a, "" for any other  *)
(* anchor), its href attribute if it has one, the text of the h3 next to   *)
(* it, and its own text.  The hrefs carry no escapes and no fragment, so   *)
(* url.Parse succeeds on them and Query().Get returns the raw value.       *)
(***************************************************************************)
MaxNodes == 3

\* len(title) > 200 in the fallback parser
maxTitleLen == 200

\* strings.HasPrefix
HasPrefix(s, prefix) == HasPrefixAt(s, 1, prefix)

\* strings.Contains
Contains(s, sub) == \E i \in 1..(Len(s) + 1) : HasPrefixAt(s, i, sub)

\* strings.IndexByte, counted from 1, 0 if absent
IndexByte(s, ch) ==
    IF \E i \in 1..Len(s) : s[i] = ch
    THEN CHOOSE i \in 1..Len(s) : s[i] = ch /\ \A j \in 1..(i - 1) : s[j] # ch
    ELSE 0

\* URL.RawQuery after url.Parse
RawQuery(href) ==
    LET i == IndexByte(href, "?")
    IN  IF i = 0 THEN << >> ELSE SubSeq(href, i + 1, Len(href))

\* url.Values.Get(key) over the pairs of a raw query
RECURSIVE ValuesGet(_, _)
ValuesGet(q, key) ==
    IF q = << >> THEN << >>
    ELSE LET amp  == IndexByte(q, "&")
             pair == IF amp = 0 THEN q ELSE SubSeq(q, 1, amp - 1)
             rest == IF amp = 0 THEN << >> ELSE SubSeq(q, amp + 1, Len(q))
             eq   == IndexByte(pair, "=")
             k    == IF eq = 0 THEN pair ELSE SubSeq(pair, 1, eq - 1)
             v    == IF eq = 0 THEN << >> ELSE SubSeq(pair, eq + 1, Len(pair))
         IN  IF k = key THEN v ELSE ValuesGet(rest, key)

\* parsed.Query().Get(key)
QueryGet(href, key) == ValuesGet(RawQuery(href), key)

\* the literals of search.go
strSlash == <<"/">>
strHttp == <<"h", "t", "t", "p">>
strUrlQ == <<"/", "u", "r", "l", "?">>
strGoogle == <<"g", "o", "o", "g", "l", "e", ".", "c", "o", "m">>
strYoutube == <<"y", "o", "u", "t", "u", "b", "e", ".", "c", "o", "m">>
strDdgL == <<"d", "u", "c", "k", "d", "u", "c", "k", "g", "o", ".", "c", "o",
             "m", "/", "l", "/", "?">>

\* hrefs of the pages the model serves
hrefA == strHttp \o <<":", "a">>
hrefB == strHttp \o <<":", "b">>
hrefRel == <<"/", "a">>
hrefGoogle == strHttp \o <<":">> \o strGoogle
hrefYoutube == strHttp \o <<":">> \o strYoutube
hrefFtp == <<"f", "t", "p", ":", "c">>
hrefRedirect == strUrlQ \o <<"s", "&", "q", "=">> \o hrefA \o <<"&", "t">>
hrefRedirectNoQ == strUrlQ \o <<"s", "=", "U">>
hrefDdg == strDdgL \o <<"u", "d", "d", "g", "=">> \o hrefB
hrefDdgBare == strDdgL \o <<"x">>

\* an anchor of a page; NoHref stands for an anchor without the attribute
Anchor(cl, has, h, t3, t) ==
    [class |-> cl, hasHref |-> has, href |-> h, h3 |-> t3, text |-> t]

Nodes ==
    {Anchor("g", TRUE, hrefA, <<"T">>, <<"x">>),
     Anchor("g", TRUE, hrefB, << >>, <<" ", "U">>),
     Anchor("g", TRUE, hrefRel, <<"T">>, <<"T">>),
     Anchor("g", TRUE, hrefGoogle, <<"T">>, <<"T">>),
     Anchor("g", FALSE, << >>, <<"T">>, << >>),
     Anchor("g", TRUE, hrefRedirect, << >>, <<"T">>),
     Anchor("", TRUE, hrefRedirect, << >>, <<"T", " ">>),
     Anchor("", TRUE, hrefRedirectNoQ, << >>, <<"T">>),
     Anchor("", TRUE, hrefB, << >>, <<"U">>),
     Anchor("", TRUE, hrefB, << >>, <<" ">>),
     Anchor("", TRUE, hrefB, << >>, [i \in 1..(maxTitleLen + 1) |-> "t"]),
     Anchor("", TRUE, hrefYoutube, << >>, <<"T">>),
     Anchor("", TRUE, hrefFtp, << >>, <<"T">>),
     Anchor("result__a", TRUE, hrefDdg, << >>, <<"T">>),
     Anchor("result__a", TRUE, hrefA, << >>, <<"U", " ">>),
     Anchor("result__a", TRUE, hrefDdgBare, << >>, <<"T">>),
     Anchor("result__a", TRUE, << >>, << >>, <<"T">>)}

\* the pages: every sequence of at most MaxNodes anchors
Docs == UNION {[1..n -> Nodes] : n \in 0..MaxNodes}

\* the values of Config.SearchEngine
Engines == {<<"g">>, <<"D", "D", "G">>}

\* search.Result
Result(u, t) == [URL |-> u, Title |-> t]

\* what search.Search returns
SearchReturn(rs, e) == [results |-> rs, err |-> e]

\* the div.g loop of searchGoogle without the len(results) >= count check
RECURSIVE EachDivGNoLimit(_, _, _, _)
EachDivGNoLimit(doc, count, i, results) ==
    IF i > Len(doc) THEN results
    ELSE LET s == doc[i]
         IN  EachDivGNoLimit(doc, count, i + 1,
                 IF s.class # "g" THEN results
                 ELSE IF ~s.hasHref \/ s.href = << >> THEN results
                 ELSE IF HasPrefix(s.href, strSlash) \/ Contains(s.href, strGoogle)
                 THEN results
                 ELSE Append(results,
                             Result(s.href,
                                    TrimSpace(IF s.h3 = << >> THEN s.text
                                              ELSE s.h3))))

\* doc.Find("div.g").Each(...) of searchGoogle, from anchor i on
RECURSIVE EachDivG(_, _, _, _)
EachDivG(doc, count, i, results) ==
    IF i > Len(doc) THEN results
    ELSE LET s == doc[i]
         IN  EachDivG(doc, count, i + 1,
                 IF s.class # "g" THEN results
                 ELSE IF Len(results) >= count THEN results
                 ELSE IF ~s.hasHref \/ s.href = << >> THEN results
                 ELSE IF HasPrefix(s.href, strSlash) \/ Contains(s.href, strGoogle)
                 THEN results
                 ELSE Append(results,
                             Result(s.href,
                                    TrimSpace(IF s.h3 = << >> THEN s.text
                                              ELSE s.h3))))

\* doc.Find("a").Each(...) of the fallback of searchGoogle, from anchor i on
RECURSIVE EachAnchor(_, _, _, _)
EachAnchor(doc, count, i, results) ==
    IF i > Len(doc) THEN results
    ELSE LET s == doc[i]
             href == IF HasPrefix(s.href, strUrlQ)
                     THEN QueryGet(s.href, <<"q">>) ELSE s.href
             title == TrimSpace(s.text)
         IN  EachAnchor(doc, count, i + 1,
                 IF Len(results) >= count THEN results
                 ELSE IF ~s.hasHref THEN results
                 ELSE IF href = << >> \/ ~HasPrefix(href, strHttp) THEN results
                 ELSE IF Contains(href, strGoogle) \/ Contains(href, strYoutube)
                 THEN results
                 ELSE IF title = << >> \/ Len(title) > maxTitleLen THEN results
                 ELSE Append(results, Result(href, title)))

\* searchGoogle over the page fetched
searchGoogle(doc, count) ==
    LET results == EachDivG(doc, count, 1, << >>)
    IN  IF Len(results) = 0
        THEN SearchReturn(EachAnchor(doc, count, 1, << >>), nil)
        ELSE SearchReturn(results, nil)

\* doc.Find("a.result__a").Each(...) of searchDuckDuckGo, from anchor i on
RECURSIVE EachResultA(_, _, _, _)
EachResultA(doc, count, i, results) ==
    IF i > Len(doc) THEN results
    ELSE LET s == doc[i]
             uddg == QueryGet(s.href, <<"u", "d", "d", "g">>)
             href == IF Contains(s.href, strDdgL) /\ uddg # << >>
                     THEN uddg ELSE s.href
         IN  EachResultA(doc, count, i + 1,
                 IF s.class # "result__a" THEN results
                 ELSE IF Len(results) >= count THEN results
                 ELSE IF ~s.hasHref \/ s.href = << >> THEN results
                 ELSE Append(results, Result(href, TrimSpace(s.text))))

\* searchDuckDuckGo over the page fetched
searchDuckDuckGo(doc, count) ==
    SearchReturn(EachResultA(doc, count, 1, << >>), nil)

\* search.Search; fetchErr says that fetchDocument failed
Search(doc, fetchErr, count, engine) ==
    IF ToLower(engine) \in {<<"d", "u", "c", "k", "d", "u", "c", "k", "g", "o">>,
                            <<"d", "d", "g">>}
    THEN IF fetchErr THEN SearchReturn(<< >>, "search duckduckgo")
         ELSE searchDuckDuckGo(doc, count)
    ELSE IF fetchErr THEN SearchReturn(<< >>, "search google")
         ELSE searchGoogle(doc, count)

\* the calls of search.Search: any page, or a failed fetch of the page
SearchArgs ==
    [doc : Docs, fetchErr : {FALSE}, count : 1..MaxCount, engine : Engines]
        \cup [doc : {<< >>}, fetchErr : {TRUE}, count : 1..MaxCount,
              engine : Engines]

InitSearch ==
    /\ InitEngine
    /\ NoRequest
    /\ NoHashCalls
    /\ NoScrape
    /\ NoConsolidate
    /\ searchArgs \in SearchArgs
    /\ searchRet = << >>
    /\ fetchTasks = -1

\* results, err := search.Search(ctx, query, count, e.config.SearchEngine)
SearchCall ==
    /\ searchRet = << >>
    /\ searchRet' = Search(searchArgs.doc, searchArgs.fetchErr,
                           searchArgs.count, searchArgs.engine)
    /\ UNCHANGED <<engineVars, apiVars, hashVars, scrapeVars, consVars,
                   searchArgs, fetchTasks>>

\* Engine.Search collecting the URLs of the results and Scrape starting one
\* goroutine for each of them
SearchFanOut ==
    /\ searchRet # << >>
    /\ fetchTasks = -1
    /\ searchRet.err = nil
    /\ Len(searchRet.results) # 0
    /\ LET us == [i \in 1..Len(searchRet.results) |-> searchRet.results[i].URL]
       IN  fetchTasks' = Len(us)
    /\ UNCHANGED <<engineVars, apiVars, hashVars, scrapeVars, consVars,
                   searchArgs, searchRet>>

NextSearch == SearchCall \/ SearchFanOut

SpecSearch == InitSearch /\ [][NextSearch]_vars

(***************************************************************************)
(* package api on its own: one request to /search or /cache.  The engine   *)
(* is the collaborator of the handler: what its call returns is chosen     *)
(* among the results and errors of Engine.Search and Engine.ClearCache.    *)
(***************************************************************************)
StatusOK == 200
StatusBadRequest == 400
StatusMethodNotAllowed == 405
StatusInternalServerError == 500

\* count := 5
defaultCount == 5

\* the value of a decimal digit, -1 for any other character
DigitVal(ch) ==
    CASE ch = "0" -> 0 [] ch = "1" -> 1 [] ch = "2" -> 2 [] ch = "3" -> 3
      [] ch = "4" -> 4 [] ch = "5" -> 5 [] ch = "6" -> 6 [] ch = "7" -> 7
      [] ch = "8" -> 8 [] ch = "9" -> 9 [] OTHER -> -1

\* the value of a sequence of decimal digits
RECURSIVE DigitsVal(_)
DigitsVal(s) ==
    IF s = << >> THEN 0
    ELSE 10 * DigitsVal(SubSeq(s, 1, Len(s) - 1)) + DigitVal(s[Len(s)])

\* strconv.Atoi, on texts short enough not to overflow
Atoi(s) ==
    LET signed == s # << >> /\ s[1] \in {"+", "-"}
        digits == IF signed THEN Tail(s) ELSE s
    IN  IF digits = << >> \/ \E i \in 1..Len(digits) : DigitVal(digits[i]) < 0
        THEN [n |-> 0, err |-> "strconv.Atoi"]
        ELSE [n |-> IF signed /\ s[1] = "-" THEN 0 - DigitsVal(digits)
                    ELSE DigitsVal(digits),
              err |-> nil]

\* api.apiResponse
apiResponse(c, n, fc, e, st) ==
    [Content |-> c, ResultCount |-> n, FromCache |-> fc, Error |-> e,
     Status |-> st]

\* writeJSON(w, status, v)
writeJSON(status, v) == [status |-> status, body |-> v]

\* what a handler did: the response written and the engine calls made
Handled(resp, cs) == [resp |-> resp, calls |-> cs]

\* searchHandler serving every method
searchHandlerAnyMethod(r, out) ==
    LET q == QueryGet(r.url, <<"q">>)
        c == QueryGet(r.url, <<"c", "o", "u", "n", "t">>)
        f == QueryGet(r.url, <<"f", "o", "r", "c", "e">>)
        count == IF c # << >> /\ Atoi(c).err = nil /\ Atoi(c).n > 0
                 THEN Atoi(c).n ELSE defaultCount
        force == f = <<"t", "r", "u", "e">> \/ f = <<"1">>
        call == [fn |-> "Search", query |-> q, count |-> count, force |-> force]
    IN  IF q = << >>
        THEN Handled(writeJSON(StatusBadRequest,
                               apiResponse(<< >>, 0, FALSE,
                                   "missing required query parameter 'q'", "")),
                     << >>)
        ELSE IF out.err # nil
        THEN Handled(writeJSON(StatusInternalServerError,
                               apiResponse(<< >>, 0, FALSE, out.err, "")),
                     <<call>>)
        ELSE Handled(writeJSON(StatusOK,
                               apiResponse(out.Content, out.ResultCount,
                                           out.FromCache, "", "")),
                     <<call>>)

\* api.searchHandler on request r, out being what eng.Search returns if it
\* is called
searchHandler(r, out) ==
    IF r.method # "GET"
    THEN Handled(writeJSON(StatusMethodNotAllowed,
                           apiResponse(<< >>, 0, FALSE, "method not allowed", "")),
                 << >>)
    ELSE searchHandlerAnyMethod(r, out)

\* api.cacheHandler on request r, err being what eng.ClearCache returns if
\* it is called
cacheHandler(r, err) ==
    LET q == QueryGet(r.url, <<"q">>)
        call == [fn |-> "ClearCache", query |-> q, count |-> 0, force |-> FALSE]
    IN  IF r.method # "DELETE"
        THEN Handled(writeJSON(StatusMethodNotAllowed,
                               apiResponse(<< >>, 0, FALSE, "method not allowed",
                                           "")),
                     << >>)
        ELSE IF err # nil
        THEN Handled(writeJSON(StatusInternalServerError,
                               apiResponse(<< >>, 0, FALSE, err, "")),
                     <<call>>)
        ELSE Handled(writeJSON(StatusOK, apiResponse(<< >>, 0, FALSE, "", "ok")),
                     <<call>>)

\* the raw queries of the requests: q, count and force, each absent or with
\* one of a few values
ParamQ == {<< >>, <<"q", "=">>, <<"q", "=", "a">>}
ParamCount ==
    {<< >>} \cup {<<"c", "o", "u", "n", "t", "=">> \o v :
                     v \in {<<"3">>, <<"0">>, <<"-", "1">>, <<"x">>, <<"1", "2">>}}
ParamForce ==
    {<< >>} \cup {<<"f", "o", "r", "c", "e", "=">> \o v :
                     v \in {<<"t", "r", "u", "e">>, <<"1">>, <<"n", "o">>}}
RawQueries ==
    {<<"?">> \o c \o <<"&">> \o q \o <<"&">> \o f :
        q \in ParamQ, c \in ParamCount, f \in ParamForce}

Methods == {"GET", "POST", "DELETE"}
Paths == {"/search", "/cache"}

Requests == [path : Paths, method : Methods, url : RawQueries]

\* what Engine.Search returns to the handler
EngineSearchReturns ==
    {SearchRet(<<"d">>, 1, FALSE, nil), SearchRet(<<"d">>, 2, TRUE, nil),
     Failure("engine: search"), Failure("engine: no search results"),
     Failure("engine: cache set")}

\* what Engine.ClearCache returns to the handler
EngineClearReturns == {nil, "engine: clear cache"}

InitAPI ==
    /\ InitEngine
    /\ NoDiscovery
    /\ NoHashCalls
    /\ NoScrape
    /\ NoConsolidate
    /\ httpReq \in Requests
    /\ httpResp = << >>
    /\ engCalls = << >>

\* mux.HandleFunc("/search", searchHandler(eng)) serving the request
ServeSearch ==
    /\ httpResp = << >>
    /\ httpReq.path = "/search"
    /\ \E out \in EngineSearchReturns :
          LET h == searchHandler(httpReq, out)
          IN  /\ httpResp' = h.resp
              /\ engCalls' = h.calls
    /\ UNCHANGED <<engineVars, searchVars, hashVars, scrapeVars, consVars,
                   httpReq>>

\* mux.HandleFunc("/cache", cacheHandler(eng)) serving the request
ServeCache ==
    /\ httpResp = << >>
    /\ httpReq.path = "/cache"
    /\ \E err \in EngineClearReturns :
          LET h == cacheHandler(httpReq, err)
          IN  /\ httpResp' = h.resp
              /\ engCalls' = h.calls
    /\ UNCHANGED <<engineVars, searchVars, hashVars, scrapeVars, consVars,
                   httpReq>>

NextAPI == ServeSearch \/ ServeCache

SpecAPI == InitAPI /\ [][NextAPI]_vars

(***************************************************************************)
(* Properties.                                                             *)
(***************************************************************************)
\* the rows of key k that are not older than the TTL at time t
FreshRows(tbl, t, k) == {r \in RowsOf(tbl, k) : t - r.updated_at <= cacheTTL}

\* call c has returned r
Returned(c) == calls[c].pc = "done"

\* C1: a Search with force=false whose key has a fresh entry returns the
\* stored content with FromCache=true at its cache check, having made no
\* discovery, no fetch, no rate-limit wait and no Set, and leaves the table
\* as it was (the storage not failing under the Get).
C1_FreshEntryServedFromCache ==
    [][\A c \in Calls :
          (CheckCache(c) /\ ~calls'[c].ioerr /\ FreshRows(table, now, calls[c].hash) # {})
          => /\ calls'[c].pc = "done"
             /\ calls'[c].ret.err = nil
             /\ calls'[c].ret.FromCache
             /\ \E r \in FreshRows(table, now, calls[c].hash) :
                    calls'[c].ret.Content = r.content
             /\ calls'[c].nSearch = 0 /\ calls'[c].nScrape = 0
             /\ calls'[c].nSleep = 0 /\ calls'[c].nSet = 0
             /\ table' = table]_vars

\* C1 witness: a call returned from the cache the content the table holds,
\* without discovery or fetch.
C1_Witness ==
    \E c \in Calls :
        /\ Returned(c) /\ ~calls[c].force
        /\ calls[c].ret.FromCache /\ calls[c].ret.err = nil
        /\ calls[c].ret.Content # << >>
        /\ \E r \in RowsOf(table, calls[c].hash) : r.content = calls[c].ret.Content
        /\ calls[c].nGet = 1 /\ calls[c].nSearch = 0 /\ calls[c].nScrape = 0

\* a page that has an error or only whitespace for text
FailedOrBlank(p) == p.Err # nil \/ \A i \in 1..Len(p.Content) : IsSpace(p.Content[i])

\* C2 as stated: every forced call reads no cache, runs discovery and runs
\* the fetch, and a success is never FromCache.
C2_ForcedAlwaysFetches ==
    \A c \in Calls :
        (Returned(c) /\ calls[c].force)
        => /\ calls[c].nGet = 0
           /\ calls[c].nSearch = 1
           /\ calls[c].nScrape = 1
           /\ calls[c].ret.err = nil => ~calls[c].ret.FromCache

\* C2 amended: a forced call never reads the cache; it has run discovery
\* once it returns, and the fetch exactly when discovery gave at least one
\* candidate; a success has run both and is never FromCache.
C2_ForcedBypassesCache ==
    \A c \in Calls :
        calls[c].force
        => /\ calls[c].nGet = 0
           /\ Returned(c) => calls[c].nSearch = 1
           /\ Returned(c) => (calls[c].nScrape = 1 <=> Len(calls[c].results) > 0)
           /\ (Returned(c) /\ calls[c].ret.err = nil)
                  => ~calls[c].ret.FromCache /\ calls[c].nScrape = 1

\* C2 witness: a forced call has run discovery and fetch and is about to
\* store, while the table holds a fresh entry for its key.
C2_Witness ==
    \E c \in Calls :
        /\ calls[c].force /\ calls[c].pc = "store"
        /\ FreshRows(table, now, calls[c].hash) # {}
        /\ calls[c].nGet = 0 /\ calls[c].nSearch = 1 /\ calls[c].nScrape = 1

\* C3: when every page of a run has an error or blank text, the call
\* returns the 'all pages failed to scrape' failure when the fetch is
\* joined, the table is left as it was, and the call has made no Set (a
\* step of a call changes the table only by making a Set).
C3_AllFailedLeavesCache ==
    [][\A c \in Calls :
          /\ (ScrapeWait(c) /\ \A i \in 1..Len(calls[c].pages) :
                                   FailedOrBlank(calls[c].pages[i]))
             => /\ calls'[c].pc = "done"
                /\ calls'[c].ret = Failure("engine: all pages failed to scrape")
                /\ calls'[c].nSet = 0
                /\ table' = table
          /\ (calls'[c] # calls[c] /\ table' # table)
             => calls'[c].nSet = calls[c].nSet + 1]_vars

\* C3 witness: a forced call failed with every page failed or blank, and the
\* entry that was there for its key is still there.
C3_Witness ==
    \E c \in Calls :
        /\ Returned(c) /\ calls[c].force
        /\ calls[c].ret.err = "engine: all pages failed to scrape"
        /\ Len(calls[c].pages) = 2
        /\ \E i \in 1..2 : calls[c].pages[i].Err = nil
        /\ calls[c].nSet = 0
        /\ RowsOf(table, calls[c].hash) # {}

\* C4: a call that returns a success with FromCache=false has made exactly
\* one Set, which left exactly one row for its key, holding the returned
\* Content and the current time; and a cache check whose key was last
\* written by such a Set, not longer ago than the TTL and with no eviction
\* since, returns that Content with FromCache=true.
C4_SuccessIsStored ==
    [][\A c \in Calls :
          /\ (calls[c].pc # "done" /\ calls'[c].pc = "done"
                /\ calls'[c].ret.err = nil /\ ~calls'[c].ret.FromCache)
             => /\ calls'[c].nSet = 1
                /\ calls'[c].ret.Content # << >>
                /\ RowsOf(table', calls[c].hash)
                      = {Row(calls[c].hash, calls'[c].ret.Content, now)}
                /\ lastWrite' = Write("Set", calls[c].hash, calls'[c].ret.Content, now)
          /\ (CheckCache(c) /\ ~calls'[c].ioerr
                /\ lastWrite.op = "Set" /\ lastWrite.key = calls[c].hash
                /\ now - lastWrite.at <= cacheTTL)
             => /\ calls'[c].pc = "done"
                /\ calls'[c].ret.err = nil
                /\ calls'[c].ret.FromCache
                /\ calls'[c].ret.Content = lastWrite.content]_vars

\* C4 witness: the third call returned from the cache what a run made after
\* the clock had moved stored for its key.
C4_Witness ==
    \E c \in Calls :
        /\ Returned(c) /\ calls[c].ret.FromCache
        /\ started = 3 /\ now = 24
        /\ lastWrite = Write("Set", calls[c].hash, calls[c].ret.Content, 24)

\* C5: a Get of key k that follows a Set(k, v), with no Set or Clear between
\* them and no more than the TTL later, returns (v, hit, no error); a Get
\* of a key with no row (one never set) returns a miss and no error; a
\* table nothing was written to has no row (the storage not failing).
C5_SetThenGet ==
    [][\A k \in CacheKeys :
          /\ (CacheGet(k) /\ ~lastOp'.ioerr
                /\ lastWrite.op = "Set" /\ lastWrite.key = k
                /\ now - lastWrite.at <= cacheTTL)
             => lastOp'.ret = GetRet(lastWrite.content, TRUE, nil)
          /\ (CacheGet(k) /\ ~lastOp'.ioerr /\ \A r \in table : r.query_hash # k)
             => lastOp'.ret = GetRet(<< >>, FALSE, nil)
          /\ lastWrite' = NoWrite => table' = {}]_vars

\* C5 witness: a Get returned the content of the Set before it, made a whole
\* TTL earlier.
C5_Witness ==
    /\ lastOp.op = "Get" /\ lastOp.ret.hit /\ lastOp.ret.err = nil
    /\ lastWrite.op = "Set" /\ lastWrite.key = lastOp.key
    /\ lastOp.ret.content = lastWrite.content
    /\ now - lastWrite.at = cacheTTL

OneRowPerKey(tbl) == \A r1, r2 \in tbl : r1.query_hash = r2.query_hash => r1 = r2

\* C7: Set(k, c) leaves exactly one row for k, holding c and the current
\* time (so fresh, whatever was there), and every other row as it was: one
\* row more when k was absent, none more when it was present; the table
\* never holds two rows of one key; and a Get returns the content of the
\* last Set (the storage not failing).
C7_SetIsUpsert ==
    [][\A k \in CacheKeys :
          /\ \A c \in CacheContents :
                (CacheSet(k, c) /\ ~lastOp'.ioerr)
                => /\ lastOp'.ret.err = nil
                   /\ {r \in table' : r.query_hash = k} = {Row(k, c, now)}
                   /\ {r \in table' : r.query_hash # k} = {r \in table : r.query_hash # k}
                   /\ Cardinality(table') =
                          IF \E r \in table : r.query_hash = k
                          THEN Cardinality(table) ELSE Cardinality(table) + 1
                   /\ FreshRows(table', now, k) # {}
          /\ OneRowPerKey(table')
          /\ (CacheGet(k) /\ ~lastOp'.ioerr /\ lastOp'.ret.hit
                /\ lastWrite.op = "Set" /\ lastWrite.key = k)
             => lastOp'.ret.content = lastWrite.content]_vars

\* C7 witness: a Set was made on a key that had a row, long after the first
\* writes, and the key has the one row with the new content and time.
C7_Witness ==
    /\ lastOp.op = "Set" /\ lastOp.had /\ lastOp.ret.err = nil
    /\ now = 36
    /\ RowsOf(table, lastOp.key) = {Row(lastOp.key, lastOp.content, 36)}
    /\ Cardinality(table) = 2

\* C8: Clear(k) with k not empty removes the rows of k and no other row,
\* and adds none; a Get of k after it misses; a Get of another key whose
\* entry is fresh still hits with that entry's content (the storage not
\* failing).
C8_ClearOneKey ==
    [][\A k \in CacheKeys :
          /\ (CacheClear(k) /\ ~lastOp'.ioerr)
             => /\ lastOp'.ret.err = nil
                /\ table' = {r \in table : r.query_hash # k}
          /\ (CacheGet(k) /\ ~lastOp'.ioerr
                /\ lastWrite.op = "Clear" /\ lastWrite.key = k)
             => ~lastOp'.ret.hit
          /\ (CacheGet(k) /\ ~lastOp'.ioerr
                /\ lastWrite.op = "Clear" /\ lastWrite.key \notin {k, << >>}
                /\ FreshRows(table, now, k) # {})
             => /\ lastOp'.ret.hit
                /\ \E r \in FreshRows(table, now, k) : lastOp'.ret.content = r.content]_vars

\* C8 witness: after a Clear of one key, a Get of another key hit.
C8_Witness ==
    /\ lastOp.op = "Get" /\ lastOp.ret.hit
    /\ lastWrite.op = "Clear" /\ lastWrite.key # << >> /\ lastWrite.key # lastOp.key

\* C9: after ClearCache("") the table is empty and a Get of any key misses;
\* a Search with force=false whose cache check comes after it, with no Set
\* between them, goes on to discovery.
C9_ClearAllEmpties ==
    [][/\ lastWrite' = Write("ClearCache", << >>, << >>, 0)
          => /\ table' = {}
             /\ \A q \in Queries : ~Get(table', now', queryHash(q), FALSE).hit
       /\ \A c \in Calls :
             (CheckCache(c) /\ ~calls'[c].ioerr
                /\ lastWrite = Write("ClearCache", << >>, << >>, 0))
             => /\ calls'[c].pc = "search"
                /\ calls'[c].nGet = 1]_vars

\* C9 witness: after two searches stored their documents ClearCache("")
\* was made, and the cache check of the third search has missed.
C9_Witness ==
    \E c \in Calls :
        /\ lastWrite = Write("ClearCache", << >>, << >>, 0)
        /\ started = 3
        /\ ~calls[c].force /\ calls[c].pc = "search" /\ calls[c].nGet = 1

\* C10: a Clear returns no error, also when it selects no row (an absent
\* key, or "" on an empty table), and then leaves the table as it was; the
\* same Clear made a second time changes nothing (the storage not failing).
C10_ClearIdempotent ==
    [][\A k \in CacheKeys \cup {<< >>} :
          (CacheClear(k) /\ ~lastOp'.ioerr)
          => /\ lastOp'.ret.err = nil
             /\ (k # << >> /\ \A r \in table : r.query_hash # k) => table' = table
             /\ (k = << >> /\ table = {}) => table' = table
             /\ (lastOp.op = "Clear" /\ lastOp.key = k /\ lastOp.ret.err = nil)
                => table' = table]_vars

\* C10 witness: a Clear of a key with no row succeeded, next to the row of
\* another key.
C10_Witness ==
    /\ lastOp.op = "Clear" /\ lastOp.key # << >> /\ ~lastOp.had
    /\ lastOp.ret.err = nil
    /\ table # {}

\* the text of s from its first to its last character that is not a space
Core(s) ==
    LET ns == {i \in 1..Len(s) : ~IsSpace(s[i])}
    IN  IF ns = {} THEN << >>
        ELSE SubSeq(s, CHOOSE i \in ns : \A j \in ns : i <= j,
                       CHOOSE i \in ns : \A j \in ns : i >= j)

\* two characters that are the same letter, in either case
SameLetter(a, b) == a = b \/ {a, b} \in {{"a", "A"}, {"b", "B"}}

\* q1 and q2 differ at most in letter case and in leading or trailing
\* whitespace
Variants(q1, q2) ==
    /\ Len(Core(q1)) = Len(Core(q2))
    /\ \A i \in 1..Len(Core(q1)) : SameLetter(Core(q1)[i], Core(q2)[i])

\* C11: once ClearCache(q') with q' not empty has succeeded, and until the
\* next write, the table has no row under the key of any query that differs
\* from q' only in letter case or surrounding whitespace; the cache check of
\* a Search(q, force=false) of such a query q made then misses, and the step
\* the call takes next is a discovery.
C11_ClearCacheNormalizes ==
    [][\A qc \in Queries \ {<< >>} :
          /\ lastWrite' = Write("ClearCache", qc, << >>, 0)
             => \A q \in SearchQueries :
                   Variants(q, qc) => \A r \in table' : r.query_hash # queryHash(q)
          /\ \A c \in Calls :
                /\ (CheckCache(c) /\ ~calls'[c].ioerr
                      /\ lastWrite = Write("ClearCache", qc, << >>, 0)
                      /\ Variants(calls[c].query, qc))
                   => /\ calls'[c].pc = "search"
                      /\ calls'[c].nGet = 1 /\ calls'[c].nSearch = 0
                /\ (calls[c].pc = "search" /\ calls'[c] # calls[c])
                   => calls'[c].nSearch = calls[c].nSearch + 1]_vars

\* C11 witness: Search("a") has returned the document it stored, and the
\* ClearCache(" A") made after it has left no row under its key.
C11_Witness ==
    \E c \in Calls :
        /\ Returned(c) /\ calls[c].query = <<"a">>
        /\ calls[c].ret.err = nil /\ ~calls[c].ret.FromCache /\ calls[c].nSet = 1
        /\ lastWrite = Write("ClearCache", <<" ", "A">>, << >>, 0)
        /\ RowsOf(table, calls[c].hash) = {}

\* C12: the keys of two queries are equal exactly when the queries differ at
\* most in letter case and surrounding whitespace (so queries that differ
\* in interior whitespace have different keys); hence a Get under the key of
\* one query hits the entry Set under the key of the other exactly then, and
\* a Set under each key leaves one row for such variants and two otherwise.
C12_SameKeyIffVariants ==
    (hashRets # << >> /\ hashRets[1] # << >> /\ hashRets[2] # << >>)
    => LET same == Variants(hashArgs[1], hashArgs[2])
           one  == Set({}, now, hashRets[1], <<"1">>, FALSE).table
           both == Set(one, now, hashRets[2], <<"2">>, FALSE).table
       IN  /\ hashRets[1] = hashRets[2] <=> same
           /\ Get(one, now, hashRets[2], FALSE).hit <=> same
           /\ Cardinality(both) = IF same THEN 1 ELSE 2
           /\ same => Get(both, now, hashRets[1], FALSE).content = <<"2">>
           /\ ~same => Get(both, now, hashRets[1], FALSE).content = <<"1">>

\* C12 witness: " Ab" and "ab " were given the same key.
C12_Witness ==
    /\ hashArgs = <<<<" ", "A", "b">>, <<"a", "b", " ">>>>
    /\ hashRets[1] # << >>
    /\ hashRets[1] = hashRets[2]

\* Scrape has returned
ScrapeReturned == scrapePc \in {"returned", "consolidated"}

\* C13: whatever the URLs, the answers of their servers, the cancellation
\* and the order in which the goroutines finish, scrapeSingle is called at
\* most once per URL, and when Scrape returns it has been called exactly
\* once per URL and the slice returned has one page per URL given, page i
\* carrying URL i.
C13_OneResultPerUrlInOrder ==
    /\ \A i \in DOMAIN tasks : tasks[i].tries <= 1
    /\ ScrapeReturned
       => /\ Len(returned) = Len(urls)
          /\ \A i \in 1..Len(urls) :
                /\ returned[i].URL = urls[i]
                /\ tasks[i].tries = 1

\* C13 witness: Scrape returned two pages; the second URL finished first,
\* with its article, and the first ran into its timeout.
C13_Witness ==
    /\ ScrapeReturned /\ Len(urls) = 2 /\ ~ctxDone
    /\ served = <<"slow", "ok">> /\ order = <<2, 1>>
    /\ returned[1].Err # nil /\ returned[2].Err = nil

\* C14: when Scrape has returned, every goroutine has finished and every
\* slot was written, once, with what the slice returned holds; so Scrape has
\* not returned while a goroutine is still running, whichever succeeded
\* first.
C14_ReturnsAfterAllResolved ==
    ScrapeReturned
    => /\ Len(tasks) = Len(urls)
       /\ \A i \in 1..Len(urls) :
             /\ tasks[i].pc = "done"
             /\ scraped[i].writes = 1
             /\ returned[i] = scraped[i].page

\* C14 witness: Scrape returned after the first URL had succeeded and the
\* second had then waited for its server until the timeout.
C14_Witness ==
    /\ ScrapeReturned /\ ~ctxDone
    /\ served = <<"ok", "slow">> /\ order = <<1, 2>>
    /\ returned[1].Err = nil /\ returned[2].Err = "http get"

\* what the fetch of rawURL alone gives when its server answers as how
OwnPage(rawURL, how) ==
    IF rawURL = <<"%">> THEN ScrapedPage(rawURL, << >>, "create request")
    ELSE CASE how = "refused" -> ScrapedPage(rawURL, << >>, "http get")
           [] how = "status"  -> ScrapedPage(rawURL, << >>, "unexpected status")
           [] how = "slow"    -> ScrapedPage(rawURL, << >>, "http get")
           [] how = "garbage" -> ScrapedPage(rawURL, << >>, "readability parse")
           [] how = "stall"   -> ScrapedPage(rawURL, << >>, "readability parse")
           [] how = "ok"      -> ScrapedPage(rawURL, <<"x", " ">>, nil)

\* a page that says the fetch of rawURL was cut off by the context
CutOff(p, rawURL) ==
    /\ p.URL = rawURL
    /\ p.Content = << >>
    /\ p.Err \in {"http get", "readability parse"}

\* C15: the page recorded for URL i is the one that URL i and the answer of
\* its own server determine, whatever the other URLs and their servers do
\* and whenever their goroutines finish; only a cancellation of the context
\* of Scrape can put a failure of URL i in its place.
C15_FetchFailureIsolation ==
    \A i \in DOMAIN tasks :
        tasks[i].pc = "done"
        => /\ \/ scraped[i].page = OwnPage(urls[i], served[i])
              \/ ctxDone /\ CutOff(scraped[i].page, urls[i])
           /\ ScrapeReturned => returned[i] = scraped[i].page

\* C15 witness: the first URL failed with a bad status, and the second,
\* finishing after it, has its article all the same.
C15_Witness ==
    /\ ScrapeReturned /\ ~ctxDone
    /\ served = <<"status", "ok">> /\ order = <<1, 2>>
    /\ returned[1].Err = "unexpected status"
    /\ returned[2] = ScrapedPage(urls[2], ServedText, nil)

\* where the goroutine of URL i was when the context was cancelled
PcAtCancel(i) ==
    IF i \in DOMAIN atCancel[1].pcs THEN atCancel[1].pcs[i] ELSE "none"

\* C16 as stated: every goroutine that was running when the context was
\* cancelled records a failure with empty content for its URL.
C16_RunningTasksAllFail ==
    atCancel # << >>
    => \A i \in DOMAIN tasks :
          (tasks[i].pc = "done" /\ PcAtCancel(i) \in {"go", "do", "read"})
          => /\ scraped[i].page.URL = urls[i]
             /\ scraped[i].page.Err # nil
             /\ scraped[i].page.Content = << >>

\* C16 amended: after a cancellation, a goroutine that had not called
\* client.Do yet records a failure with empty content; one that was waiting
\* in client.Do or reading the body records such a failure or, its answer
\* having arrived, the page its own server determines; a page recorded
\* before the cancellation is kept; every page carries its own URL, a page
\* with an error has empty content, and Scrape returns one page per URL, in
\* the order given, after all goroutines have finished.
C16_CancelResolvesPerUrl ==
    atCancel # << >>
    => /\ \A i \in DOMAIN tasks :
             tasks[i].pc = "done"
             => /\ scraped[i].page.URL = urls[i]
                /\ scraped[i].page.Err # nil => scraped[i].page.Content = << >>
                /\ PcAtCancel(i) \in {"none", "go"} => scraped[i].page.Err # nil
                /\ PcAtCancel(i) \in {"do", "read"}
                   => \/ scraped[i].page.Err # nil
                      \/ scraped[i].page = OwnPage(urls[i], served[i])
                /\ PcAtCancel(i) = "done" => scraped[i].page = atCancel[1].pages[i]
       /\ ScrapeReturned
          => /\ Len(returned) = Len(urls)
             /\ \A i \in 1..Len(urls) :
                   tasks[i].pc = "done" /\ returned[i] = scraped[i].page

\* C16 witness: the context was cancelled when the first URL had its article
\* and the second was reading a body that would have given one; Scrape
\* returned the article of the first and a failure for the second.
C16_Witness ==
    /\ ScrapeReturned /\ atCancel # << >>
    /\ served = <<"ok", "ok">>
    /\ atCancel[1].pcs = <<"done", "read">>
    /\ returned[1] = ScrapedPage(urls[1], ServedText, nil)
    /\ returned[2] = ScrapedPage(urls[2], << >>, "readability parse")

\* the pages of l that have no error and a text that is not all whitespace
RECURSIVE Survivors(_)
Survivors(l) ==
    IF l = << >> THEN << >>
    ELSE (IF FailedOrBlank(Head(l)) THEN << >> ELSE <<Head(l)>>) \o Survivors(Tail(l))

\* the sections "## <URL>\n\n<text without the whitespace around it>" of the
\* pages of l, with "\n\n---\n\n" between one and the next
RECURSIVE SectionsJoined(_)
SectionsJoined(l) ==
    IF l = << >> THEN << >>
    ELSE <<"#", "#", " ">> \o Head(l).URL \o <<"\n", "\n">> \o Core(Head(l).Content)
            \o (IF Tail(l) = << >> THEN << >>
                ELSE <<"\n", "\n", "-", "-", "-", "\n", "\n">> \o SectionsJoined(Tail(l)))

\* the places of doc where a line starts with "## "
HeaderPlaces(doc) ==
    {i \in 1..Len(doc) : /\ i = 1 \/ doc[i - 1] = "\n"
                         /\ HasPrefixAt(doc, i, <<"#", "#", " ">>)}

\* the rest of the line of doc that starts at place i
LineAt(doc, i) ==
    LET ends == {j \in i..(Len(doc) + 1) : j = Len(doc) + 1 \/ doc[j] = "\n"}
    IN  SubSeq(doc, i, (CHOOSE j \in ends : \A e \in ends : j <= e) - 1)

\* the URLs of the header lines of doc, from place i on, in their order
RECURSIVE HeaderUrlsFrom(_, _)
HeaderUrlsFrom(doc, i) ==
    IF i > Len(doc) THEN << >>
    ELSE (IF i \in HeaderPlaces(doc) THEN <<LineAt(doc, i + 3)>> ELSE << >>)
            \o HeaderUrlsFrom(doc, i + 1)

HeaderUrls(doc) == HeaderUrlsFrom(doc, 1)

\* the number of places of doc where pat occurs
Occurrences(doc, pat) == Cardinality({i \in 1..Len(doc) : HasPrefixAt(doc, i, pat)})

\* C17: consolidate returns as count the number N - k - b of its N pages
\* that have neither an error (k have one) nor, having none, a text that is
\* empty or all whitespace (b), and the document has a header for each of
\* these pages and for no other, in the order the pages were given.
C17_CountIsSurvivors ==
    consRet # << >>
    => LET N == Len(consArg)
           k == Cardinality({i \in 1..N : consArg[i].Err # nil})
           b == Cardinality({i \in 1..N :
                   /\ consArg[i].Err = nil
                   /\ \A j \in 1..Len(consArg[i].Content) :
                          IsSpace(consArg[i].Content[j])})
           kept == Survivors(consArg)
       IN  /\ consRet[1].count = N - k - b
           /\ consRet[1].count = Len(kept)
           /\ HeaderUrls(consRet[1].content) = [i \in 1..Len(kept) |-> kept[i].URL]

\* C17 witness: of three pages, one with an error, one blank and one with
\* text, consolidate counted one.
C17_Witness ==
    /\ consArg = <<ScrapedPage(<<"v">>, <<"x">>, "dummy error"),
                   ScrapedPage(<<"u">>, <<" ", " ">>, nil),
                   ScrapedPage(<<"v">>, <<" ", "y", "\n">>, nil)>>
    /\ consRet # << >>
    /\ consRet[1].count = 1

\* C18: the document is the sections "## <URL>\n\n<trimmed text>" of the
\* kept pages, in order, with "\n\n---\n\n" between one and the next: it
\* holds one divider less than sections (none when nothing is kept), starts
\* with the header of the first kept page and ends with the text of the
\* last, and has no header for a skipped page.
C18_DocumentIsJoinedSections ==
    consRet # << >>
    => LET kept == Survivors(consArg)
           doc  == consRet[1].content
           div  == <<"\n", "\n", "-", "-", "-", "\n", "\n">>
           last == Core(kept[Len(kept)].Content)
       IN  /\ doc = SectionsJoined(kept)
           /\ kept = << >> => doc = << >>
           /\ kept # << >>
              => /\ Occurrences(doc, div) = Len(kept) - 1
                 /\ Occurrences(doc, <<"#", "#", " ">>) = Len(kept)
                 /\ HasPrefixAt(doc, 1, <<"#", "#", " ">> \o kept[1].URL \o <<"\n", "\n">>)
                 /\ SubSeq(doc, Len(doc) - Len(last) + 1, Len(doc)) = last
                 /\ doc[Len(doc)] # "\n"

\* C18 witness: a failed page before two pages with text left the two
\* sections with one divider between them.
C18_Witness ==
    /\ consArg = <<ScrapedPage(<<"v">>, << >>, "dummy error"),
                   ScrapedPage(<<"u">>, <<"x">>, nil),
                   ScrapedPage(<<"v">>, <<" ", "y", "\n">>, nil)>>
    /\ consRet # << >>
    /\ consRet[1].content = <<"#", "#", " ", "u", "\n", "\n", "x",
                              "\n", "\n", "-", "-", "-", "\n", "\n",
                              "#", "#", " ", "v", "\n", "\n", "y">>

\* C19: whatever the order in which the goroutines of a run finish, the
\* document consolidate builds from the pages Scrape returned has the
\* sections of the URLs that were scraped, in the order of the URL list, and
\* is the document that the URL list and what scrapeSingle returned for each
\* URL determine.
C19_SectionsInDiscoveryOrder ==
    scrapePc = "consolidated"
    => LET own == [i \in 1..Len(urls) |->
                      ScrapedPage(urls[i], tasks[i].ret.Content, tasks[i].ret.Err)]
           kept == Survivors(own)
       IN  /\ HeaderUrls(consRet[1].content) = [i \in 1..Len(kept) |-> kept[i].URL]
           /\ consRet[1].content = SectionsJoined(kept)
           /\ consRet[1].count = Len(kept)

\* C19 witness: the second URL finished before the first, and the document
\* has the section of the first before that of the second.
C19_Witness ==
    /\ scrapePc = "consolidated"
    /\ order = <<2, 1>>
    /\ consRet[1].content = <<"#", "#", " ", "u", "\n", "\n", "x",
                              "\n", "\n", "-", "-", "-", "\n", "\n",
                              "#", "#", " ", "u", "u", "\n", "\n", "x">>

\* C20: the step of a call in which search.Search returns an error ends the
\* call with the failure 'engine: search', search.Search having been called
\* once, with no rate-limit wait, no Scrape and no Set made, and leaves the
\* table as it was; no call calls search.Search twice, and a call that has
\* returned takes no further step.
C20_DiscoveryFailureStops ==
    [][\A c \in Calls :
          /\ \A out \in SearchOutcomes(calls[c].count) :
                (DiscoverWith(c, out) /\ out.err # nil)
                => /\ calls'[c].pc = "done"
                   /\ calls'[c].ret = Failure("engine: search")
                   /\ calls'[c].nSearch = 1
                   /\ calls'[c].nSleep = 0 /\ calls'[c].nScrape = 0
                   /\ calls'[c].nSet = 0
                   /\ calls'[c].results = << >> /\ calls'[c].pages = << >>
                   /\ table' = table
          /\ calls'[c].nSearch <= 1
          /\ (Returned(c) /\ calls'[c] # calls[c])
             => calls'[c] = IdleCall /\ table' = table]_vars

\* C20 witness: with a rate limit configured, a forced search whose key has
\* an entry failed in discovery, without a wait or a fetch, and the entry is
\* still there.
C20_Witness ==
    \E c \in Calls :
        /\ Returned(c) /\ calls[c].force
        /\ calls[c].ret = Failure("engine: search")
        /\ config.RateLimit > 0
        /\ calls[c].nSearch = 1 /\ calls[c].nSleep = 0 /\ calls[c].nScrape = 0
        /\ RowsOf(table, calls[c].hash) # {}

\* C21: the step of a call in which search.Search returns no error and an
\* empty result list ends the call with the failure 'engine: no search
\* results', with no rate-limit wait, no Scrape and no Set made, and leaves
\* the table as it was; a call that has returned so takes no further step.
C21_NoCandidatesStops ==
    [][\A c \in Calls :
          /\ \A out \in SearchOutcomes(calls[c].count) :
                (DiscoverWith(c, out) /\ out.err = nil /\ Len(out.results) = 0)
                => /\ calls'[c].pc = "done"
                   /\ calls'[c].ret = Failure("engine: no search results")
                   /\ calls'[c].nSleep = 0 /\ calls'[c].nScrape = 0
                   /\ calls'[c].nSet = 0
                   /\ calls'[c].pages = << >>
                   /\ table' = table /\ lastWrite' = lastWrite
          /\ (calls[c].ret.err = "engine: no search results" /\ calls'[c] # calls[c])
             => calls'[c] = IdleCall /\ table' = table]_vars

\* C21 witness: with a rate limit configured, a search that missed the
\* cache got an empty result list and failed without a wait or a fetch,
\* next to the entry of another query.
C21_Witness ==
    \E c \in Calls :
        /\ Returned(c) /\ ~calls[c].force
        /\ calls[c].ret = Failure("engine: no search results")
        /\ config.RateLimit > 0
        /\ calls[c].nGet = 1 /\ calls[c].nSearch = 1
        /\ calls[c].nSleep = 0 /\ calls[c].nScrape = 0 /\ calls[c].nSet = 0
        /\ table # {} /\ RowsOf(table, calls[c].hash) = {}

\* C22: a call has slept at most once; it has not slept before discovery
\* has given it at least one URL, and has slept once (when the configured
\* delay is positive) or not at all (when it is 0) by the time Scrape is
\* called, whatever the number of URLs; a call answered from the cache has
\* not slept.
C22_RateLimitOncePerCall ==
    \A c \in Calls :
        /\ calls[c].nSleep <= 1
        /\ config.RateLimit = 0 => calls[c].nSleep = 0
        /\ calls[c].nSleep = 1
           => calls[c].nSearch = 1 /\ Len(calls[c].results) >= 1
        /\ calls[c].pc \in {"idle", "check_cache", "search", "rate_limit"}
           => calls[c].nSleep = 0 /\ calls[c].nScrape = 0
        /\ (calls[c].pc = "scrape" \/ calls[c].nScrape >= 1)
           => calls[c].nSleep = IF config.RateLimit > 0 THEN 1 ELSE 0
        /\ calls[c].pc = "scrape" => calls[c].nScrape = 0
        /\ (Returned(c) /\ calls[c].ret.FromCache) => calls[c].nSleep = 0
        /\ (Returned(c) /\ Len(calls[c].results) = 0) => calls[c].nSleep = 0

\* C22 witness: a call that fetched two URLs under a rate limit of 200 ms
\* has slept once.
C22_Witness ==
    \E c \in Calls :
        /\ Returned(c) /\ calls[c].ret.err = nil
        /\ config.RateLimit = 200
        /\ Len(calls[c].results) = 2 /\ calls[c].nScrape = 1
        /\ calls[c].nSleep = 1

\* C23: a call under which the storage failed has returned at that step,
\* with a failure: 'engine: cache get' when it was the Get of the cache
\* check, no discovery and no Scrape having been made; 'engine: cache set'
\* when it was the Set that followed a consolidate with survivors, the
\* result returned holding nothing of the document built.
C23_StorageErrorFailsCall ==
    \A c \in Calls :
        calls[c].ioerr
        => /\ Returned(c)
           /\ calls[c].ret.Content = << >> /\ calls[c].ret.ResultCount = 0
           /\ calls[c].nSet = 0
              => /\ calls[c].ret.err = "engine: cache get"
                 /\ ~calls[c].force /\ calls[c].nGet = 1
                 /\ calls[c].nSearch = 0 /\ calls[c].nScrape = 0
           /\ calls[c].nSet = 1
              => /\ calls[c].ret.err = "engine: cache set"
                 /\ calls[c].content # << >> /\ calls[c].resultCount >= 1
                 /\ calls[c].nScrape = 1

\* C23 witness: a call that had built a document from two pages returned
\* the failure of its Set.
C23_Witness ==
    \E c \in Calls :
        /\ Returned(c) /\ calls[c].ioerr /\ calls[c].nSet = 1
        /\ calls[c].ret = Failure("engine: cache set")
        /\ calls[c].resultCount = 2

\* the errors Engine.Search returns
SearchErrors ==
    {"engine: cache get", "engine: search", "engine: no search results",
     "engine: all pages failed to scrape", "engine: cache set"}

\* C24: what a call returns is either one of the errors of Engine.Search
\* with the zero SearchResult (empty Content, ResultCount 0, FromCache
\* false), or no error with a Content that is not empty; the table, written
\* by the engine only, holds no empty content.
C24_NoPartialSuccess ==
    /\ \A c \in Calls :
          Returned(c)
          => \/ /\ calls[c].ret.err \in SearchErrors
                /\ calls[c].ret.Content = << >>
                /\ calls[c].ret.ResultCount = 0
                /\ ~calls[c].ret.FromCache
             \/ /\ calls[c].ret.err = nil
                /\ calls[c].ret.Content # << >>
    /\ \A r \in table : r.content # << >>

\* C24 witness: a call returned from the cache a document of two sections.
C24_Witness ==
    \E c \in Calls :
        /\ Returned(c) /\ calls[c].ret.err = nil /\ calls[c].ret.FromCache
        /\ calls[c].ret.ResultCount = 2
        /\ Len(calls[c].ret.Content) > 0

\* call c has stored its document
Wrote(c) == Returned(c) /\ calls[c].nSet = 1 /\ calls[c].ret.err = nil

\* C25: however the steps of two Search calls of one key interleave, the
\* table never holds two rows of a key; while a Set is the last write
\* committed, the row of its key is the one row holding the content and the
\* time of that Set; and that content is the whole document of a call that
\* is storing or has stored it.
C25_ConcurrentSetsAreAtomic ==
    /\ OneRowPerKey(table)
    /\ lastWrite.op = "Set"
       => /\ RowsOf(table, lastWrite.key)
                = {Row(lastWrite.key, lastWrite.content, lastWrite.at)}
          /\ \E c \in Calls :
                /\ calls[c].hash = lastWrite.key
                /\ calls[c].nSet = 1
                /\ calls[c].content = lastWrite.content
                /\ calls[c].pending = {}
                /\ calls[c].content = SectionsJoined(Survivors(calls[c].pages))
    /\ \A r \in table :
          \E c \in Calls : calls[c].nSet = 1 /\ calls[c].hash = r.query_hash
                             /\ calls[c].content = r.content

\* C25 witness: two calls of one key have stored different documents, the
\* first at hour 0, and the table holds the one row the later Set wrote.
C25_Witness ==
    /\ Wrote("c1") /\ Wrote("c2")
    /\ calls["c1"].hash = calls["c2"].hash
    /\ calls["c1"].content # calls["c2"].content
    /\ lastWrite.op = "Set" /\ lastWrite.at = 24
    /\ \E c \in Calls :
          table = {Row(calls[c].hash, calls[c].content, 24)}

\* the documents consolidate can build from the pages of a run over the
\* URLs us of which at least one page survives
CompleteDocs(us) ==
    {SectionsJoined(Survivors([i \in 1..Len(us) |->
                                  ScrapedPage(us[i], o[i].Content, o[i].Err)])) :
        o \in [1..Len(us) -> FetchOutcomes]} \ {<< >>}

\* C26: however the steps of Search calls and ClearCache calls interleave,
\* every row holds a content that is not empty and is the whole document of
\* a run with at least one surviving page, made by a call that had joined
\* all its fetches; and while a ClearCache is the last write committed, the
\* key it names (every key, for "") has no row.
C26_EntriesAreCompleteDocuments ==
    /\ \A r \in table :
          /\ r.content # << >>
          /\ r.content \in CompleteDocs(<<<<"u">>, <<"v">>>>)
          /\ \E c \in Calls :
                /\ calls[c].nSet = 1 /\ calls[c].hash = r.query_hash
                /\ calls[c].content = r.content
                /\ calls[c].resultCount >= 1
                /\ calls[c].pending = {}
    /\ lastWrite.op = "ClearCache"
       => \A r \in table :
             lastWrite.key # << >> /\ ~Variants(lastWrite.key, <<"a">>)

\* C26 witness: a ClearCache was committed while one call, which has stored
\* its document, was done and the other was waiting for its fetches; the key
\* has no row.
C26_Witness ==
    /\ lastWrite.op = "ClearCache"
    /\ \E c, d \in Calls :
          /\ Wrote(c)
          /\ calls[d].pc = "wait" /\ calls[d].pending # {}
          /\ calls[d].hash = calls[c].hash
          /\ RowsOf(table, calls[c].hash) = {}

\* the text u occurs in the text h
IsInfix(u, h) == \E i \in 1..(Len(h) + 1) : HasPrefixAt(h, i, u)

\* the results rs come, one each and in document order, from anchors of doc
\* at the places idxs: the URL of a result is the href of its anchor or the
\* value of a parameter of that href
InPageOrder(rs, doc, idxs) ==
    \E f \in [1..Len(rs) -> idxs] :
        /\ \A i, j \in 1..Len(rs) : i < j => f[i] < f[j]
        /\ \A i \in 1..Len(rs) :
              rs[i].URL # << >> /\ IsInfix(rs[i].URL, doc[f[i]].href)

\* the first anchor of a div.g that the primary parser of searchGoogle takes
PrimaryHit(n) ==
    /\ n.class = "g" /\ n.hasHref /\ n.href # << >>
    /\ n.href[1] # "/"
    /\ ~IsInfix(strGoogle, n.href)

\* C27: search.Search returns at most count results, taken in document
\* order from the anchors of the page, for DuckDuckGo, for the div.g parser
\* of Google and for its fallback; when the page has an anchor the div.g
\* parser takes, every result comes from such an anchor (the fallback has
\* not run); and the fan-out over the results starts one goroutine per
\* result, so at most count.
C27_AtMostCountInPageOrder ==
    searchRet # << >> =>
        LET doc == searchArgs.doc
            rs  == searchRet.results
            hits == {i \in 1..Len(doc) : PrimaryHit(doc[i])}
        IN  /\ Len(rs) <= searchArgs.count
            /\ InPageOrder(rs, doc, 1..Len(doc))
            /\ searchArgs.engine = <<"g">> /\ hits # {}
               => rs # << >> /\ InPageOrder(rs, doc, hits)
            /\ fetchTasks # -1
               => fetchTasks = Len(rs) /\ fetchTasks <= searchArgs.count

\* C27 witness: a Google page of three anchors, none in a div.g, each one
\* the fallback parser takes; with count 2 the call has returned the first
\* two, in order, and two goroutines were started.
C27_Witness ==
    /\ searchArgs.engine = <<"g">> /\ searchArgs.count = 2
    /\ searchArgs.doc = <<Anchor("", TRUE, hrefRedirect, << >>, <<"T", " ">>),
                          Anchor("", TRUE, hrefB, << >>, <<"U">>),
                          Anchor("result__a", TRUE, hrefA, << >>, <<"U", " ">>)>>
    /\ searchRet # << >>
    /\ searchRet.err = nil
    /\ searchRet.results = <<Result(hrefA, <<"T">>), Result(hrefB, <<"U">>)>>
    /\ fetchTasks = 2

\* C28: once a request is answered: /search has answered 405 to every
\* method but GET and 400 to a GET whose q is absent or empty, /cache has
\* answered 405 to every method but DELETE, and in these cases the engine
\* was not called; in every other case the engine was called once, and the
\* answer is 500 with an error text that is not empty, or 200 with none.
C28_HttpStatusMapping ==
    httpResp # << >> =>
        LET r == httpReq
            noQ == \E c \in ParamCount, f \in ParamForce, q \in {<< >>, <<"q", "=">>} :
                      r.url = <<"?">> \o c \o <<"&">> \o q \o <<"&">> \o f
            rejected ==
                IF r.path = "/search" /\ r.method # "GET" THEN 405
                ELSE IF r.path = "/search" /\ noQ THEN 400
                ELSE IF r.path = "/cache" /\ r.method # "DELETE" THEN 405
                ELSE 0
        IN  /\ rejected # 0
               => /\ httpResp.status = rejected
                  /\ engCalls = << >>
                  /\ httpResp.body.Error # ""
            /\ rejected = 0
               => /\ Len(engCalls) = 1
                  /\ engCalls[1].fn = (IF r.path = "/search" THEN "Search"
                                       ELSE "ClearCache")
                  /\ httpResp.status \in {200, 500}
                  /\ httpResp.status = 500
                        <=> httpResp.body.Error # ""
                  /\ httpResp.status = 500
                        => httpResp.body.Content = << >>
                  /\ r.path = "/search" /\ httpResp.status = 200
                        => httpResp.body.Content # << >>

\* C28 witness: a GET of /search with q=a, count=3 and force=1 called
\* Engine.Search("a", 3, true), the engine failed, and the answer is 500
\* with the engine's error.
C28_Witness ==
    /\ httpReq.path = "/search" /\ httpReq.method = "GET"
    /\ httpResp # << >>
    /\ engCalls = <<[fn |-> "Search", query |-> <<"a">>, count |-> 3,
                     force |-> TRUE]>>
    /\ httpResp.status = 500
    /\ httpResp.body.Error = "engine: search"

\* the place of a position of Engine.Search in the order of its phases
Phase(pc) ==
    CASE pc = "idle" -> 0
      [] pc = "check_cache" -> 1
      [] pc = "search" -> 2
      [] pc = "rate_limit" -> 3
      [] pc = "scrape" -> 4
      [] pc = "wait" -> 5
      [] pc = "store" -> 6
      [] pc = "done" -> 7

\* C29: every step of a call moves it forward in the order START,
\* CHECK_CACHE, DISCOVER, RATE_LIMIT_WAIT, FETCH, CONSOLIDATE, STORE, RETURN
\* (only the caller taking the result brings it back to the start); each
\* cache.Get, search.Search, Scrape, consolidate and cache.Set of the call is
\* made in its own phase, after the ones before it, and at most once; and
\* cache.Set is made only after consolidate has counted a survivor.
C29_PhasesInOrderOnce ==
    [][\A c \in Calls :
          LET a == calls[c]
              b == calls'[c]
          IN  /\ a.pc # b.pc
                 => \/ Phase(a.pc) < Phase(b.pc)
                    \/ a.pc = "done" /\ b.pc = "idle"
              /\ b.nGet <= 1 /\ b.nSearch <= 1 /\ b.nScrape <= 1
              /\ b.nCons <= 1 /\ b.nSet <= 1
              /\ b.nGet > a.nGet => a.pc = "check_cache" /\ ~a.force
              /\ b.nSearch > a.nSearch
                 => a.pc = "search" /\ a.nScrape = 0 /\ a.nCons = 0 /\ a.nSet = 0
              /\ b.nScrape > a.nScrape
                 => /\ a.pc = "scrape" /\ a.nSearch = 1
                    /\ a.nCons = 0 /\ a.nSet = 0
              /\ b.nCons > a.nCons
                 => a.pc = "wait" /\ a.nScrape = 1 /\ a.pending = {} /\ a.nSet = 0
              /\ b.nSet > a.nSet
                 => /\ a.pc = "store" /\ a.nCons = 1
                    /\ a.resultCount >= 1 /\ a.content # << >>
                    /\ b.pc = "done"
      ]_vars

\* C29 witness: a call that was not forced has gone through every phase
\* once: one Get (a miss), one discovery, one wait, one Scrape, one
\* consolidate and one Set, and has returned its document.
C29_Witness ==
    \E c \in Calls :
        /\ Returned(c) /\ calls[c].ret.err = nil /\ ~calls[c].ret.FromCache
        /\ calls[c].nGet = 1 /\ calls[c].nSearch = 1 /\ calls[c].nSleep = 1
        /\ calls[c].nScrape = 1 /\ calls[c].nCons = 1 /\ calls[c].nSet = 1

\* C30: under fair scheduling a call that has started comes to return, with
\* no error or with one of the errors of Engine.Search; and a call waiting
\* at the barrier of Scrape comes past it, whatever the number of URLs and
\* whichever way their fetches resolve.
C30_EveryCallReturns ==
    \A c \in Callers :
        /\ (calls[c].pc # "idle")
              ~> (Returned(c) /\ calls[c].ret.err \in SearchErrors \cup {nil})
        /\ (calls[c].pc = "wait") ~> (calls[c].pc \in {"store", "done"})

\* C30 witness: a call over two URLs whose fetches both failed has come
\* past the barrier and returned the failure of a run without survivors.
C30_Witness ==
    \E c \in Callers :
        /\ Returned(c)
        /\ Len(calls[c].pages) = 2 /\ calls[c].pending = {}
        /\ \A i \in 1..2 : calls[c].pages[i].Err # nil
        /\ calls[c].ret.err = "engine: all pages failed to scrape"

\* call c has joined its fetches and consolidated their pages
Consolidated(c) == Returned(c) /\ calls[c].nCons = 1

\* C31 as stated: a call of which at least one fetch gave a text that is not
\* blank has returned a success that is not from the cache, with the number
\* of surviving pages as ResultCount.
C31_SurvivorMeansSuccess ==
    \A c \in Calls :
        (Consolidated(c) /\ Len(Survivors(calls[c].pages)) >= 1)
        => /\ calls[c].ret.err = nil
           /\ ~calls[c].ret.FromCache
           /\ calls[c].ret.ResultCount = Len(Survivors(calls[c].pages))

\* C31: a call whose discovery gave N URLs, N <= count, and of which at
\* least one fetch gave a text that is not blank, has returned, when the
\* cache.Set of its document succeeded, a success that is not from the cache
\* with the number of surviving pages as ResultCount, and when the Set
\* failed, the failure of the Set; so every success that is not from the
\* cache has 1 <= ResultCount <= N <= count.
C31_SurvivorAndStoredMeansSuccess ==
    \A c \in Calls :
        LET N == Len(calls[c].results)
            surv == Len(Survivors(calls[c].pages))
        IN  /\ N <= calls[c].count
            /\ (Consolidated(c) /\ surv >= 1 /\ ~calls[c].ioerr)
               => /\ calls[c].ret.err = nil
                  /\ ~calls[c].ret.FromCache
                  /\ calls[c].ret.ResultCount = surv
                  /\ calls[c].nSet = 1
            /\ (Consolidated(c) /\ surv >= 1 /\ calls[c].ioerr)
               => /\ calls[c].ret = [Content |-> << >>, ResultCount |-> 0,
                                     FromCache |-> FALSE,
                                     err |-> "engine: cache set"]
                  /\ calls[c].nSet = 1
            /\ (Returned(c) /\ calls[c].ret.err = nil /\ ~calls[c].ret.FromCache)
               => /\ 1 <= calls[c].ret.ResultCount
                  /\ calls[c].ret.ResultCount <= N
                  /\ calls[c].ret.ResultCount = surv

\* C31 witness: a call over two URLs, one fetch failed and one gave a text,
\* has stored its document and returned a success with ResultCount 1.
C31_Witness ==
    \E c \in Calls :
        /\ Consolidated(c) /\ ~calls[c].ioerr
        /\ Len(calls[c].results) = 2
        /\ \E i, j \in 1..2 : /\ calls[c].pages[i].Err # nil
                              /\ ~FailedOrBlank(calls[c].pages[j])
        /\ calls[c].ret.err = nil /\ ~calls[c].ret.FromCache
        /\ calls[c].ret.ResultCount = 1

\* C32 as stated: the ResultCount of a cache hit equals the ResultCount of
\* the run that stored the document, whatever the texts of its pages.
C32_HitCountIsStoredCount ==
    hitCount # -1 => hitCount = consRet[1].count

\* a line of the text of page p, other than its first, starts with "## ",
\* or its first character that is not a space does
HasHeaderLine(p) ==
    \/ \E i \in 2..Len(p.Content) :
          p.Content[i - 1] = "\n" /\ HasPrefixAt(p.Content, i, <<"#", "#", " ">>)
    \/ Core(p.Content) # << >>
          /\ HasPrefixAt(Core(p.Content), 1, <<"#", "#", " ">>)

\* C32, for texts without header lines: when no surviving page has a text
\* with a line that starts with "## ", the ResultCount of a cache hit equals
\* the ResultCount of the run that stored the document; a hit never reports
\* fewer pages than the run did.
C32_HitCountWithoutHeaderLines ==
    hitCount # -1
    => /\ hitCount >= consRet[1].count
       /\ (\A i \in 1..Len(consArg) :
              FailedOrBlank(consArg[i]) \/ ~HasHeaderLine(consArg[i]))
          => hitCount = consRet[1].count

\* C32 witness: the one page "x\n## y" of a run, stored with ResultCount 1,
\* is reported with ResultCount 2 on a hit.
C32_Witness ==
    /\ consArg = <<ScrapedPage(<<"u">>, <<"x", "\n", "#", "#", " ", "y">>, nil)>>
    /\ consRet # << >>
    /\ consRet[1].count = 1
    /\ hitCount = 2

\* C33: when call c1 has stored its document, the cache check of a later
\* call c2 with force=false of a query that differs from c1's at most in
\* case and surrounding whitespace returns, the storage not failing, that
\* document with FromCache=true, whatever the count of c2 and whichever
\* search engine is configured by then, without discovery or fetch; the
\* ResultCount it returns is that of c1's run.
C33_KeyIgnoresCountAndEngine ==
    [][(/\ CheckCache("c2") /\ ~calls'["c2"].ioerr
        /\ calls["c1"].pc = "done" /\ calls["c1"].nSet = 1
        /\ calls["c1"].ret.err = nil
        /\ Variants(calls["c1"].query, calls["c2"].query))
       => /\ calls'["c2"].pc = "done"
          /\ calls'["c2"].ret = [Content |-> calls["c1"].ret.Content,
                                 ResultCount |-> calls["c1"].ret.ResultCount,
                                 FromCache |-> TRUE, err |-> nil]
          /\ calls'["c2"].nSearch = 0 /\ calls'["c2"].nScrape = 0
          /\ table' = table
      ]_vars

\* C33 witness: c1 stored a document of two pages for "a" with count 2
\* under google; c2 asked for " A" with count 1 under duckduckgo and got
\* that document from the cache, with ResultCount 2.
C33_Witness ==
    /\ calls["c1"].pc = "done" /\ calls["c1"].nSet = 1
    /\ calls["c1"].ret.err = nil
    /\ calls["c1"].query = <<"a">> /\ calls["c1"].count = 2
    /\ config.SearchEngine = "duckduckgo"
    /\ calls["c2"].pc = "done" /\ calls["c2"].query = <<" ", "A">>
    /\ calls["c2"].count = 1
    /\ calls["c2"].ret.FromCache
    /\ calls["c2"].ret.ResultCount = 2
    /\ calls["c2"].ret.Content = calls["c1"].ret.Content

\* C34: a ClearCache(q) with q not the empty string removes no row but the
\* one under the key of q, if there is one, and leaves every other row as it
\* was; for a q of whitespace only, no search having stored under its key,
\* it removes nothing; only ClearCache("") removes every row.
C34_ClearCacheRemovesOneEntry ==
    [][/\ \A q \in Queries \ {<< >>} :
             ClearCache(q)
             => /\ table' \subseteq table
                /\ Cardinality(table \ table') <= 1
                /\ \A r \in table \ table' :
                      \E sq \in SearchQueries :
                         Variants(sq, q) /\ r.query_hash = <<"sha256:">> \o Core(ToLower(sq))
                /\ Core(q) = << >> => table' = table
       /\ (ClearCache(<< >>) /\ lastWrite' # lastWrite) => table' = {}
      ]_vars

\* C34 witness: ClearCache(" ") has succeeded and the two entries the
\* searches stored are still there.
C34_Witness ==
    /\ lastWrite = Write("ClearCache", <<" ">>, << >>, 0)
    /\ Cardinality(table) = 2

\* the table has a row of key k and it is older than the TTL at time t
StaleRow(tbl, t, k) == RowsOf(tbl, k) # {} /\ FreshRows(tbl, t, k) = {}

\* C35: the cache check of a call with force=false whose key has a row older
\* than the TTL misses and the call goes on to discovery, the table staying
\* as it was; the Set of a call that succeeds leaves one row for the key,
\* with the new document and the current time, which the next cache check
\* made within the TTL returns as a hit; every other step of a call, and so
\* a call that fails, leaves the table as it was, and so does the clock: the
\* stale row stays and is missed again.
C35_StaleEntryIsAMiss ==
    [][\A c \in Callers :
          /\ (CheckCache(c) /\ ~calls'[c].ioerr
                /\ StaleRow(table, now, calls[c].hash))
             => /\ calls'[c].pc = "search"
                /\ calls'[c].nGet = 1
                /\ table' = table
          /\ (Store(c) /\ calls'[c].ret.err = nil)
             => /\ RowsOf(table', calls[c].hash)
                      = {Row(calls[c].hash, calls'[c].ret.Content, now)}
                /\ ~StaleRow(table', now', calls[c].hash)
          /\ (CheckCache(c) /\ ~calls'[c].ioerr
                /\ FreshRows(table, now, calls[c].hash) # {})
             => /\ calls'[c].pc = "done"
                /\ calls'[c].ret.FromCache
                /\ \E r \in RowsOf(table, calls[c].hash) :
                      calls'[c].ret.Content = r.content
          /\ (calls'[c] # calls[c]
                /\ ~(calls'[c].pc = "done" /\ calls'[c].nSet = 1
                        /\ calls'[c].ret.err = nil))
             => table' = table
          /\ now' # now => table' = table
      ]_vars

\* C35 witness: a call with force=false made when the row of its key was 36
\* hours old has missed, run discovery and fetch, and failed with no page
\* surviving; the row is still the one written at hour 0.
C35_Witness ==
    \E c \in Callers :
        /\ Returned(c) /\ ~calls[c].force /\ calls[c].nGet = 1
        /\ calls[c].nSearch = 1 /\ calls[c].nScrape = 1
        /\ calls[c].ret.err = "engine: all pages failed to scrape"
        /\ now = 36
        /\ \E r \in table : table = {r} /\ r.query_hash = calls[c].hash
                               /\ r.updated_at = 0

\* C36: consolidate returns the empty document exactly when it returns the
\* count 0, and it does so exactly when no page it was given has both no
\* error and a text that is not blank: the list may be empty, all errors,
\* all blank or mixed; so the test content == "" of Engine.Search is true
\* exactly for the runs without a survivor.
C36_EmptyIffCountZero ==
    consRet # << >>
    => /\ consRet[1].content = << >> <=> consRet[1].count = 0
       /\ consRet[1].content = << >>
             <=> \A i \in 1..Len(consArg) : FailedOrBlank(consArg[i])
       /\ consRet[1].count >= 0

\* C36 witness: of a failed page, a blank page and a failed page that has
\* text, consolidate has made the empty document with count 0.
C36_Witness ==
    /\ consArg = <<ScrapedPage(<<"u">>, << >>, "dummy error"),
                   ScrapedPage(<<"v">>, <<" ", " ">>, nil),
                   ScrapedPage(<<"u">>, <<"x">>, "dummy error")>>
    /\ consRet = <<[content |-> << >>, count |-> 0]>>

\* the context of call c was cancelled before its Scrape had started a
\* fetch task
CancelledBeforeFetch(c) ==
    /\ ctxDone
    /\ calls[c].pc # "idle"
    /\ atCancel[1].pc \in {"check_cache", "search", "rate_limit", "scrape"}

\* C37 as stated: a call whose context was cancelled before its fetch phase
\* began has returned a failure, and the table is as it was at the
\* cancellation.
C37_EarlyCancelAlwaysFails ==
    \A c \in Callers :
        (Returned(c) /\ CancelledBeforeFetch(c))
        => /\ calls[c].ret.err # nil
           /\ table = atCancel[1].table

\* C37: a call whose context was cancelled before its fetch phase began
\* never writes the table, and when it returns it returns either the entry
\* its cache check found (the check does not look at the context: no
\* discovery and no fetch were made), or a failure with the zero result:
\* the failure of the discovery when the cancellation came before it, and
\* the failure of a run without survivors when it came after it.
C37_EarlyCancelFailsUnlessCached ==
    \A c \in Callers :
        CancelledBeforeFetch(c)
        => /\ table = atCancel[1].table
           /\ calls[c].nSet = 0
           /\ Returned(c)
              => \/ /\ calls[c].ret.err = nil /\ calls[c].ret.FromCache
                    /\ atCancel[1].pc = "check_cache"
                    /\ calls[c].nSearch = 0 /\ calls[c].nScrape = 0
                 \/ /\ calls[c].ret = [Content |-> << >>, ResultCount |-> 0,
                                       FromCache |-> FALSE, err |-> calls[c].ret.err]
                    /\ calls[c].ret.err \in
                          IF calls[c].nGet = 1 /\ calls[c].nSearch = 0
                          THEN {"engine: cache get"}
                          ELSE IF atCancel[1].pc \in {"check_cache", "search"}
                          THEN {"engine: search"}
                          ELSE {"engine: all pages failed to scrape"}
                    /\ atCancel[1].pc \in {"check_cache", "search"}
                          => calls[c].nScrape = 0

\* C37 witness: the context was cancelled during the rate-limit wait, after
\* discovery had given two URLs; both fetches failed and the call returned
\* the failure of a run without survivors, the entry of an earlier run still
\* in the table.
C37_Witness ==
    \E c \in Callers :
        /\ Returned(c) /\ ctxDone
        /\ atCancel[1].pc = "rate_limit"
        /\ Len(calls[c].pages) = 2
        /\ calls[c].ret.err = "engine: all pages failed to scrape"
        /\ table # {} /\ table = atCancel[1].table

\* the goroutines that were started and have not called wg.Done()
Running == {i \in DOMAIN tasks : tasks[i].pc \in {"go", "do", "read"}}

\* C38: in scraper.Scrape a slot of the result slice is written by the
\* goroutine of its own index only, with the URL of that index, and once:
\* it holds the zero value with no write until that goroutine is done and
\* one write from then on; the WaitGroup counts the goroutines started and
\* not done; and Scrape has read the slice only with the counter at zero
\* and every goroutine done, so that each slot it read had its one write and
\* no slot is written after the read.
C38_OwnSlotOnceReadAfterBarrier ==
    /\ \A i \in DOMAIN scraped :
          /\ scraped[i].writes = (IF tasks[i].pc = "done" THEN 1 ELSE 0)
          /\ scraped[i].page = (IF tasks[i].pc = "done"
                                THEN ScrapedPage(urls[i], tasks[i].ret.Content,
                                                 tasks[i].ret.Err)
                                ELSE ZeroPage)
    /\ scrapePc # "call" => wg = Cardinality(Running)
    /\ scrapePc \in {"returned", "consolidated"}
       => /\ wg = 0
          /\ Len(returned) = Len(urls)
          /\ \A i \in DOMAIN urls :
                /\ tasks[i].pc = "done"
                /\ scraped[i].writes = 1
                /\ returned[i] = scraped[i].page

\* C38 witness: Scrape has returned two pages whose goroutines finished in
\* the reverse of the input order, each slot written once.
C38_Witness ==
    /\ scrapePc = "returned"
    /\ Len(urls) = 2
    /\ order = <<2, 1>>
    /\ \A i \in 1..2 : scraped[i].writes = 1 /\ returned[i].URL = urls[i]

====
